---------------------------- MODULE Spec2Model ----------------------------
(***************************************************************************)
(* A model of the comparison routines of gcpy/benchmark.py:                *)
(*   compare_single_level  (lines 247-753)                                 *)
(*   compare_zonal_mean    (lines 1114-1415)                               *)
(* Each routine is a straight-line program with one loop over variables;   *)
(* the model follows its sections as a sequence of steps (pc).             *)
(***************************************************************************)
EXTENDS Integers, Sequences, FiniteSets, TLC

(***************************************************************************)
(* Bounds of the model.                                                    *)
(***************************************************************************)
\* largest cubed-sphere face size among the input shapes
MaxFace == 2
\* number of sample cells of a lat-lon layer
NCells == 2
\* layer values are the integers -MaxVal..MaxVal
MaxVal == 1
\* longest variable list
MaxVars == 2

(***************************************************************************)
(* Python values: None, str (a sequence of character codes) and int.       *)
(* Python's == between a str and an int is False, never an error.          *)
(***************************************************************************)
PyNone == [tag |-> "none", s |-> <<>>, n |-> 0]
PyStr(chars) == [tag |-> "str", s |-> chars, n |-> 0]
PyInt(i) == [tag |-> "int", s |-> <<>>, n |-> i]

\* the character code of 'x'
CharX == 120

\* '4x5', '2x2.5', '1x1.25'
Label4x5 == <<52, CharX, 53>>
Label2x25 == <<50, CharX, 50, 46, 53>>
Label1x125 == <<49, CharX, 49, 46, 50, 53>>

\* str(n) for a one-digit n: the label a caller writes for face size n
FaceLabel(n) == <<48 + n>>

PyNeAlways(a, b) == TRUE
\* Python's  a != b
PyNe(a, b) == a # b

\* Python's str < str: lexicographic on character codes
RECURSIVE StrLt(_, _)
StrLt(a, b) ==
    IF b = <<>> THEN FALSE
    ELSE IF a = <<>> THEN TRUE
    ELSE IF Head(a) # Head(b) THEN Head(a) < Head(b)
    ELSE StrLt(Tail(a), Tail(b))

\* Python's a < b on two values of the same type
PyLt(a, b) ==
    IF a.tag = "int" THEN a.n < b.n ELSE StrLt(a.s, b.s)

\* Python's min([a, b]) and max([a, b]): the first of the extreme items
PyMin2Mut(a, b) == IF PyLt(a, b) THEN b ELSE a
PyMin2(a, b) == IF PyLt(b, a) THEN b ELSE a
PyMax2Mut(a, b) == IF PyLt(b, a) THEN b ELSE a
PyMax2(a, b) == IF PyLt(a, b) THEN b ELSE a

\* Python's  'x' in s  for a str s
HasX(v) == \E i \in 1..Len(v.s) : v.s[i] = CharX

(***************************************************************************)
(* Floating-point values: a finite value is an exact fraction n/d in       *)
(* lowest terms with d > 0; NaN and the two infinities follow IEEE 754.    *)
(* Zero is +0.0.                                                           *)
(***************************************************************************)
Abs(x) == IF x < 0 THEN -x ELSE x

RECURSIVE GCD(_, _)
GCD(a, b) == IF b = 0 THEN a ELSE GCD(b, a % b)

Fin(n, d) ==
    LET g == GCD(Abs(n), Abs(d))
        sg == IF d < 0 THEN -1 ELSE 1
    IN  [k |-> "fin", n |-> (sg * n) \div g, d |-> (sg * d) \div g]
NaN == [k |-> "nan", n |-> 0, d |-> 1]
PInf == [k |-> "inf", n |-> 1, d |-> 0]
NInf == [k |-> "inf", n |-> -1, d |-> 0]
Zero == Fin(0, 1)

\* The operations below bind their operands (a_ \in {a}) before they use
\* them, so that an operand that is itself an expression is evaluated once.
IsNaN(a) == a.k = "nan"
IsFinite(a) == a.k = "fin"

FNeg(a) ==
    CHOOSE r_ \in {(
        IF a_.k = "nan" THEN NaN ELSE [a_ EXCEPT !.n = -a_.n]) : a_ \in {a}} : TRUE
FAbs(a) ==
    CHOOSE r_ \in {(
        IF a_.k = "nan" THEN NaN ELSE [a_ EXCEPT !.n = Abs(a_.n)]) : a_ \in {a}} : TRUE

FSub(a, b) ==
    CHOOSE r_ \in {(
        IF a_.k = "nan" \/ b_.k = "nan" THEN NaN
        ELSE IF a_.k = "inf" THEN (IF b_.k = "inf" /\ b_.n = a_.n THEN NaN ELSE a_)
        ELSE IF b_.k = "inf" THEN FNeg(b_)
        ELSE Fin(a_.n * b_.d - b_.n * a_.d, a_.d * b_.d)) : a_ \in {a}, b_ \in {b}} : TRUE

FAdd(a, b) == FSub(a, FNeg(b))

Sign(x) == IF x < 0 THEN -1 ELSE 1

FMul(a, b) ==
    CHOOSE r_ \in {(
        IF a_.k = "nan" \/ b_.k = "nan" THEN NaN
        ELSE IF a_.k = "inf" \/ b_.k = "inf"
          THEN (IF a_.n = 0 \/ b_.n = 0 THEN NaN
                ELSE IF Sign(a_.n) * Sign(b_.n) > 0 THEN PInf ELSE NInf)
        ELSE Fin(a_.n * b_.n, a_.d * b_.d)) : a_ \in {a}, b_ \in {b}} : TRUE

\* numpy's true division of float arrays, elementwise: x/0 is +-inf, 0/0 is NaN
FDiv(a, b) ==
    CHOOSE r_ \in {(
        IF a_.k = "nan" \/ b_.k = "nan" THEN NaN
        ELSE IF a_.k = "inf"
          THEN (IF b_.k = "inf" THEN NaN
                ELSE IF Sign(a_.n) * Sign(b_.n) > 0 THEN PInf ELSE NInf)
        ELSE IF b_.k = "inf" THEN Zero
        ELSE IF b_.n = 0
          THEN (IF a_.n = 0 THEN NaN ELSE IF a_.n > 0 THEN PInf ELSE NInf)
        ELSE Fin(a_.n * b_.d, a_.d * b_.n)) : a_ \in {a}, b_ \in {b}} : TRUE

\* a < b; False whenever a NaN is involved
FLt(a, b) ==
    CHOOSE r_ \in {(
        IF a_.k = "nan" \/ b_.k = "nan" THEN FALSE
        ELSE IF a_.k = "inf" THEN a_.n < 0 /\ ~(b_.k = "inf" /\ b_.n < 0)
        ELSE IF b_.k = "inf" THEN b_.n > 0
        ELSE a_.n * b_.d < b_.n * a_.d) : a_ \in {a}, b_ \in {b}} : TRUE

\* a == b on floats (NaN equals nothing)
FEq(a, b) ==
    CHOOSE r_ \in {(
        a_.k # "nan" /\ b_.k # "nan" /\ a_ = b_) : a_ \in {a}, b_ \in {b}} : TRUE

\* the least / greatest of a non-empty set of non-NaN values
LeastOf(S) == CHOOSE v \in S : \A w \in S : ~FLt(w, v)
GreatestOf(S) == CHOOSE v \in S : \A w \in S : ~FLt(v, w)

Elems(arr) == {arr[i] : i \in 1..Len(arr)}
HasNaN(arr) == \E i \in 1..Len(arr) : IsNaN(arr[i])

\* ndarray.min(), ndarray.max(), np.min, np.max: a NaN in the array gives NaN
NpMin(arr) ==
    CHOOSE r_ \in {(
        IF HasNaN(arr_) THEN NaN ELSE LeastOf(Elems(arr_))) : arr_ \in {arr}} : TRUE
NpMax(arr) ==
    CHOOSE r_ \in {(
        IF HasNaN(arr_) THEN NaN ELSE GreatestOf(Elems(arr_))) : arr_ \in {arr}} : TRUE

\* np.nanmin, np.nanmax: NaNs are skipped; an all-NaN array gives NaN
NanMin(arr) ==
    LET S == {v \in Elems(arr) : ~IsNaN(v)} IN IF S = {} THEN NaN ELSE LeastOf(S)
NanMax(arr) ==
    LET S == {v \in Elems(arr) : ~IsNaN(v)} IN IF S = {} THEN NaN ELSE GreatestOf(S)

\* the builtin max([a, b]): b replaces a only when b > a
BuiltinMax2(a, b) ==
    CHOOSE r_ \in {(
        IF FLt(a_, b_) THEN b_ ELSE a_) : a_ \in {a}, b_ \in {b}} : TRUE

\* np.max([a, b])
NpMax2(a, b) == NpMax(<<a, b>>)

RECURSIVE Insert(_, _)
Insert(x, s) ==
    CHOOSE r_ \in {(
        IF s_ = <<>> THEN <<x_>>
        ELSE IF FLt(Head(s_), x_) THEN <<Head(s_)>> \o Insert(x_, Tail(s_))
        ELSE <<x_>> \o s_) : x_ \in {x}, s_ \in {s}} : TRUE

RECURSIVE Sort(_)
Sort(s) == IF s = <<>> THEN <<>> ELSE Insert(Head(s), Sort(Tail(s)))

\* np.percentile(arr, q) with the default linear interpolation
Percentile(arr, q) ==
    IF HasNaN(arr) THEN NaN
    ELSE LET s == Sort(arr)
             num == q * (Len(arr) - 1)
             lo == num \div 100
             t == Fin(num - 100 * lo, 100)
         IN  IF t = Zero THEN s[lo + 1]
             ELSE FAdd(s[lo + 1], FMul(FSub(s[lo + 2], s[lo + 1]), t))

\* elementwise operations on arrays of the same length
ArrSub(a, b) ==
    CHOOSE r_ \in {(
        [i \in 1..Len(a_) |-> FSub(a_[i], b_[i])]) : a_ \in {a}, b_ \in {b}} : TRUE
ArrDiv(a, b) ==
    CHOOSE r_ \in {(
        [i \in 1..Len(a_) |-> FDiv(a_[i], b_[i])]) : a_ \in {a}, b_ \in {b}} : TRUE
ArrDivScalar(a, x) == [i \in 1..Len(a) |-> FDiv(a[i], x)]
AllZero(a) == \A i \in 1..Len(a) : FEq(a[i], Zero)

(***************************************************************************)
(* Grid classification.                                                    *)
(***************************************************************************)
\* lines 264-275 (ref) and 280-291 (dev) of compare_single_level.
\* nlat/6 == nlon is a true division: it holds exactly when nlat = 6*nlon.
Classify(nlat, nlon) ==
    IF nlat = 46 /\ nlon = 72
      THEN [ok |-> TRUE, res |-> PyStr(Label4x5), gridtype |-> "ll"]
    ELSE IF nlat = 91 /\ nlon = 144
      THEN [ok |-> TRUE, res |-> PyStr(Label2x25), gridtype |-> "ll"]
    ELSE IF nlat = 6 * nlon
      THEN [ok |-> TRUE, res |-> PyInt(nlon), gridtype |-> "cs"]
    ELSE [ok |-> FALSE, res |-> PyNone, gridtype |-> "none"]

\* lines 1125-1144 of compare_zonal_mean: no cubed-sphere branch
ZMClassify(nlat, nlon) ==
    IF nlat = 46 /\ nlon = 72
      THEN [ok |-> TRUE, res |-> PyStr(Label4x5), gridtype |-> "ll"]
    ELSE IF nlat = 91 /\ nlon = 144
      THEN [ok |-> TRUE, res |-> PyStr(Label2x25), gridtype |-> "ll"]
    ELSE [ok |-> FALSE, res |-> PyNone, gridtype |-> "none"]

(***************************************************************************)
(* Comparison resolution.                                                  *)
(***************************************************************************)
\* lines 299-315 of compare_single_level; arg is the cmpres argument.
\* A cmpres that is neither None nor a str makes  'x' in cmpres  raise.
ResolveCmpMut(arg, rres, rtype, dres, dtype) ==
    IF arg = PyNone THEN
        IF rres = dres /\ rtype = "ll"
          THEN [err |-> FALSE, res |-> rres, gridtype |-> "ll"]
        ELSE IF rtype = "ll" /\ dtype = "ll"
          THEN [err |-> FALSE, res |-> PyMin2(rres, dres), gridtype |-> "ll"]
        ELSE [err |-> FALSE, res |-> PyStr(Label1x125), gridtype |-> "ll"]
    ELSE IF arg.tag # "str" THEN [err |-> TRUE, res |-> arg, gridtype |-> "none"]
    ELSE IF HasX(arg) THEN [err |-> FALSE, res |-> arg, gridtype |-> "ll"]
    ELSE [err |-> FALSE, res |-> arg, gridtype |-> "cs"]
ResolveCmp(arg, rres, rtype, dres, dtype) ==
    IF arg = PyNone THEN
        IF rres = dres /\ rtype = "ll"
          THEN [err |-> FALSE, res |-> rres, gridtype |-> "ll"]
        ELSE IF rtype = "ll" /\ dtype = "ll"
          THEN [err |-> FALSE, res |-> PyMin2(rres, dres), gridtype |-> "ll"]
        ELSE IF rtype = "cs" /\ dtype = "cs"
          THEN [err |-> FALSE, res |-> PyMax2(rres, dres), gridtype |-> "cs"]
        ELSE [err |-> FALSE, res |-> PyStr(Label1x125), gridtype |-> "ll"]
    ELSE IF arg.tag # "str" THEN [err |-> TRUE, res |-> arg, gridtype |-> "none"]
    ELSE IF HasX(arg) THEN [err |-> FALSE, res |-> arg, gridtype |-> "ll"]
    ELSE [err |-> FALSE, res |-> arg, gridtype |-> "cs"]

\* lines 1153-1157 of compare_zonal_mean: the comparison grid is always
\* lat-lon and a given cmpres is taken as it is
ZMResolveCmp(arg, rres, dres) ==
    IF arg = PyNone THEN
        IF rres = dres THEN rres ELSE PyMin2(rres, dres)
    ELSE arg

(***************************************************************************)
(* Strings of the variable loop (sequences of character codes).            *)
(***************************************************************************)
\* 'kg', 'kgC', '/m2', ' m-2', 'ppb'
StrKg == <<107, 103>>
StrKgC == <<107, 103, 67>>
StrPerM2 == <<47, 109, 50>>
StrM2 == <<32, 109, 45, 50>>
StrPpb == <<112, 112, 98>>
\* ', Normalized by Area' (kept as one token: it is only ever compared)
StrNormalized == "Normalized by Area"
\* 'WetLossConvFrac', 'Prod_', 'Loss_'
exclude_list == << <<87, 101, 116, 76, 111, 115, 115, 67, 111, 110, 118, 70, 114, 97, 99>>,
                   <<80, 114, 111, 100, 95>>,
                   <<76, 111, 115, 115, 95>> >>
\* 'SpeciesConc_O3', 'Prod_NO'
NameO3 == <<83, 112, 101, 99, 105, 101, 115, 67, 111, 110, 99, 95, 79, 51>>
NameProdNO == <<80, 114, 111, 100, 95, 78, 79>>
\* 'P0' (a scalar) and 'hyam' (one value for each level): no lat, no lon
NameP0 == <<80, 48>>
NameHyam == <<104, 121, 97, 109>>
\* 'ppb ' with a trailing blank
StrPpbPadded == <<112, 112, 98, 32>>

\* Python's  s in name  for two strs: s occurs as a contiguous run
Contains(name, sub) ==
    \E o \in 0..(Len(name) - Len(sub)) :
        \A i \in 1..Len(sub) : name[o + i] = sub[i]

ExcludedFirstOnly(name) == Contains(name, exclude_list[1])
\* any(s in varname for s in exclude_list), lines 458-460 and 1244-1245
Excluded(name) == \E j \in 1..Len(exclude_list) : Contains(name, exclude_list[j])

(***************************************************************************)
(* Fields and layers.  A layer is the array of the sample cells of one     *)
(* horizontal slice: NCells cells on a lat-lon grid (one latitude row of   *)
(* NCells longitudes), one cell for each of the six faces on a cubed       *)
(* sphere.  A field with a level axis holds the two levels a call can      *)
(* select, ilev and 71 - ilev; its time axis holds the index itime.        *)
(***************************************************************************)
NFaces == 6
Vals == {Fin(v, 1) : v \in (-MaxVal)..MaxVal}

\* lat-lon layers: the cells after the first share one value
LLLayers == {[i \in 1..NCells |-> IF i = 1 THEN a ELSE b] : a \in Vals, b \in Vals}
\* cubed-sphere layers: the faces after the first share one value
CSLayers == {[i \in 1..NFaces |-> IF i = 1 THEN a ELSE b] : a \in Vals, b \in Vals}
LayersOf(gridtype) == IF gridtype = "cs" THEN CSLayers ELSE LLLayers

Shift(layer, delta) == [i \in 1..Len(layer) |-> FAdd(layer[i], Fin(delta, 1))]

LevIndexUnflipped(flip, lev) == lev
\* the level a slice selects, lines 414-422 and 431-439
LevIndex(flip, lev) == IF flip THEN 71 - lev ELSE lev

PlainField(dims, u, layer) == [dims |-> dims, units |-> u, layer |-> layer]
LevField(dims, u, lev, base, delta) ==
    [dims |-> dims, units |-> u,
     levels |-> [l \in {lev, 71 - lev} |-> IF l = lev THEN base ELSE Shift(base, delta)]]

\* lines 411-426 (ref) and 429-443 (dev) of compare_single_level
SliceLayer(field, flip, lev) ==
    IF "time" \in field.dims /\ "lev" \in field.dims
      THEN field.levels[LevIndex(flip, lev)]
    ELSE IF "lev" \in field.dims
      THEN field.levels[LevIndex(flip, lev)]
    ELSE IF "time" \in field.dims
      THEN field.layer
    ELSE field.layer

(***************************************************************************)
(* Area normalization of compare_single_level, lines 458-470.              *)
(***************************************************************************)
\* an area argument: [] (not given) or an array, here uniform over the cells
NoArea == [given |-> FALSE, a |-> Zero]
AreaOf(x) == [given |-> TRUE, a |-> Fin(x, 1)]

NormalizesNever(any, units_, nba, name) == FALSE
\* line 459-460: is the variable normalized
Normalizes(any, units_, nba, name) ==
    any /\ (units_ = StrKg \/ units_ = StrKgC \/ nba) /\ ~Excluded(name)

\* lines 461-466: the divisor of one dataset; dividing by [] cannot broadcast
Divisor(own_arg, other_arg, embedded) ==
    IF ~own_arg.given /\ ~other_arg.given THEN [err |-> FALSE, a |-> embedded]
    ELSE IF ~own_arg.given THEN [err |-> TRUE, a |-> Zero]
    ELSE [err |-> FALSE, a |-> own_arg.a]

(***************************************************************************)
(* Regridding operators.  make_regridder_L2L and make_regridder_C2L are    *)
(* library calls; an operator is a linear map that sends every source     *)
(* cell to one target cell, and one key (source, target) names one         *)
(* operator.                                                               *)
(***************************************************************************)
OpKinds == {"rotate", "merge"}
Target(op, src) == IF op = "merge" THEN 1 ELSE (src % NCells) + 1

RECURSIVE SumCells(_, _)
SumCells(S, layer) ==
    IF S = {} THEN Zero
    ELSE LET c == CHOOSE c \in S : TRUE
         IN  FAdd(layer[c], SumCells(S \ {c}, layer))

\* refregridder(ds_ref): one lat-lon to lat-lon operator
RegridLL(op, layer) ==
    [t \in 1..NCells |-> SumCells({c \in 1..Len(layer) : Target(op, c) = t}, layer)]

\* regridder_list[i](face i): the contribution of one face to the target grid
FaceOp(op, face, x) == [t \in 1..NCells |-> IF Target(op, face) = t THEN x ELSE Zero]

\* lines 489-492 and 503-506: accumulate the six faces from np.zeros
RECURSIVE Accumulate(_, _, _, _)
Accumulate(op, faces, i, acc) ==
    IF i > NFaces THEN acc
    ELSE Accumulate(op, faces, i + 1,
                    [t \in 1..NCells |-> FAdd(acc[t], FaceOp(op, i, faces[i])[t])])
RegridCSSkipsFace(op, faces) == Accumulate(op, faces, 2, [t \in 1..NCells |-> Zero])
RegridCS(op, faces) == Accumulate(op, faces, 1, [t \in 1..NCells |-> Zero])

\* lines 483-494 (ref) and 497-508 (dev)
OnCmpGrid(regrid, gridtype, op, layer) ==
    IF regrid
      THEN IF gridtype = "ll" THEN RegridLL(op, layer) ELSE RegridCS(op, layer)
      ELSE layer

\* lines 511-513: can  ds_*_cmp.data.reshape(6, cmpres, cmpres)  be evaluated.
\* cmpres must be an int, and a regridded cubed-sphere layer is an ndarray
\* whose .data is a memoryview without reshape.
ReshapeRaises(cmptype, cmp, rregrid, dregrid) ==
    cmptype = "cs" /\ (cmp.tag # "int" \/ rregrid \/ dregrid)

(***************************************************************************)
(* Differences and their ranges.                                           *)
(***************************************************************************)
\* lines 618-621: absdiff
AbsDiffMut(dev_cmp, ref_cmp) == [i \in 1..Len(dev_cmp) |-> FAbs(FSub(dev_cmp[i], ref_cmp[i]))]
AbsDiff(dev_cmp, ref_cmp) == ArrSub(dev_cmp, ref_cmp)

NanAbsMaxOfMax(a) == FAbs(NanMax(a))
\* line 623 and line 692: max([np.abs(np.nanmin(a)), np.abs(np.nanmax(a))])
NanAbsMax(a) == BuiltinMax2(FAbs(NanMin(a)), FAbs(NanMax(a)))

AbsPctMaxOf95(a) == FAbs(Percentile(a, 95))
\* lines 657-659: abspctmax
AbsPctMax(a) == NpMax2(FAbs(Percentile(a, 5)), FAbs(Percentile(a, 95)))

\* lines 685-690: fracdiff, with 0/0 set to NaN
FracDiffMut(dev_cmp, ref_cmp) ==
    [i \in 1..Len(dev_cmp) |->
        IF FEq(ref_cmp[i], Zero) THEN NaN
        ELSE FDiv(FSub(dev_cmp[i], ref_cmp[i]), ref_cmp[i])]
FracDiffRatio(dev_cmp, ref_cmp) ==
    [i \in 1..Len(dev_cmp) |->
        IF FEq(dev_cmp[i], Zero) /\ FEq(ref_cmp[i], Zero) THEN NaN
        ELSE FDiv(dev_cmp[i], ref_cmp[i])]
FracDiff(dev_cmp, ref_cmp) ==
    [i \in 1..Len(dev_cmp) |->
        IF FEq(dev_cmp[i], Zero) /\ FEq(ref_cmp[i], Zero) THEN NaN
        ELSE FDiv(FSub(dev_cmp[i], ref_cmp[i]), ref_cmp[i])]

\* a display range [vmin, vmax] = [-m, m]
Symmetric(m) == <<FNeg(m), m>>
FixedRange == <<Fin(-2, 1), Fin(2, 1)>>

(***************************************************************************)
(* compare_zonal_mean: layers keep their levels.                           *)
(***************************************************************************)
\* lines 1230-1241: isel(time=itime) or the field itself; the result is the
\* sequence of the levels the field holds, lowest index first
ZMSlice(field, lev) ==
    LET lo == IF lev < 71 - lev THEN lev ELSE 71 - lev
    IN  <<field.levels[lo], field.levels[71 - lo]>>

\* .mean(dim='lon'): one value for each level of the single latitude row
RowMean(layer) ==
    CHOOSE r_ \in {(
        FDiv(SumCells(1..Len(layer_), layer_), Fin(Len(layer_), 1))) : layer_ \in {layer}} : TRUE
ZonalMean(ds) == [l \in 1..Len(ds) |-> RowMean(ds[l])]

\* lines 1252-1259
ZMOnCmpGrid(regrid, op, ds) ==
    IF regrid THEN [l \in 1..Len(ds) |-> RegridLL(op, ds[l])] ELSE ds

\* line 1320: max([np.abs(a.min()), np.abs(a.max())])
AbsMax(a) == BuiltinMax2(FAbs(NpMin(a)), FAbs(NpMax(a)))

\* line 1363: zm_fracdiff (no NaN assignment)
ZMFracDiff(dev_cmp, ref_cmp) == ArrDiv(ArrSub(dev_cmp, ref_cmp), ref_cmp)

\* lines 1366-1370: the range of the dynamic-range panel
ZMFracRange(fd) == IF AllZero(fd) THEN FixedRange ELSE Symmetric(AbsMax(fd))

(***************************************************************************)
(* Inputs of a call.                                                       *)
(***************************************************************************)
FaceSizes == 1..MaxFace
Nlats == {0, 7, 46, 91} \cup {6 * n : n \in FaceSizes}
Nlons == {0, 72, 144} \cup FaceSizes
AllShapes == Nlats \X Nlons
LLShapes == {<<46, 72>>, <<91, 144>>}
DataShapes == LLShapes \cup {<<6 * n, n>> : n \in FaceSizes}
CmpresArgs ==
    {PyNone, PyStr(Label4x5), PyStr(Label2x25), PyStr(Label1x125)}
      \cup {PyStr(FaceLabel(n)) : n \in FaceSizes}
      \cup {PyInt(n) : n \in FaceSizes}
Levs == {0, 22}
AreaArgs == {NoArea, AreaOf(2), AreaOf(4)}

\* the argument tuples the model calls the routines with
Call(rt, rs, ds, ca, n, lev, fr, fd, nba, ra, da, eu, pdf) ==
    [routine |-> rt, refshape |-> rs, devshape |-> ds, cmpres |-> ca, n_var |-> n,
     ilev |-> lev, flip_ref |-> fr, flip_dev |-> fd, normalize_by_area |-> nba,
     refarea |-> ra, devarea |-> da, enforce_units |-> eu, savepdf |-> pdf,
     match_cbar |-> TRUE]

\* every shape and every cmpres, an empty variable list
GridCalls ==
    {Call(rt, rs, ds, ca, 0, 0, FALSE, FALSE, FALSE, NoArea, NoArea, TRUE, FALSE) :
        rt \in {"single", "zonal"}, rs \in AllShapes, ds \in AllShapes, ca \in CmpresArgs}
\* the cmpres arguments of the calls whose layers take every value
FreeCmpres == {PyNone}
\* one variable on the supported grids
ValueCalls ==
    {Call(rt, rs, ds, ca, 1, 0, FALSE, FALSE, FALSE, NoArea, NoArea, TRUE, FALSE) :
        rt \in {"single", "zonal"}, rs \in DataShapes, ds \in DataShapes,
        ca \in CmpresArgs}
\* vertical flips
FlipCalls ==
    {c \in {Call("single", rs, ds, PyNone, 1, lev, fr, fd, FALSE, NoArea, NoArea, TRUE, FALSE) :
        rs \in LLShapes, ds \in LLShapes, lev \in Levs, fr \in BOOLEAN, fd \in BOOLEAN} :
        c.flip_ref \/ c.flip_dev \/ c.ilev # 0}
\* area normalization
AreaCalls ==
    {c \in {Call(rt, rs, ds, PyNone, 1, 0, FALSE, FALSE, nba, ra, da, TRUE, FALSE) :
        rt \in {"single", "zonal"}, rs \in {<<46, 72>>, <<6, 1>>}, ds \in LLShapes,
        nba \in BOOLEAN, ra \in AreaArgs, da \in AreaArgs} :
        c.normalize_by_area \/ c.refarea.given \/ c.devarea.given}
\* several variables
ListCalls ==
    {Call(rt, <<46, 72>>, ds, PyNone, n, 0, FALSE, FALSE, FALSE, NoArea, NoArea, eu, pdf) :
        rt \in {"single", "zonal"}, ds \in LLShapes, n \in 2..MaxVars,
        eu \in BOOLEAN, pdf \in BOOLEAN}
\* the cubed-sphere routines: area normalization and the vertical flip
GchpAreaCalls ==
    {Call(rt, <<6, 1>>, <<6, 1>>, PyStr(Label1x125), 1, 0, fv, fv, nba, ra, da, TRUE, FALSE) :
        rt \in {"gchp_single", "gchp_zonal"}, fv \in BOOLEAN, nba \in BOOLEAN,
        ra \in {NoArea, AreaOf(2)}, da \in {NoArea, AreaOf(4)}}
\* the cubed-sphere routines: several variables
GchpListCalls ==
    {Call(rt, <<6, 1>>, <<6 * n, n>>, PyStr(Label1x125), nv, 0, FALSE, FALSE, FALSE,
          NoArea, NoArea, eu, pdf) :
        rt \in {"gchp_single", "gchp_zonal"}, n \in FaceSizes, nv \in 2..MaxVars,
        eu \in BOOLEAN, pdf \in BOOLEAN}
\* compare_single_level with each panel on its own colour range
CbarCalls ==
    {[c EXCEPT !.match_cbar = FALSE] :
        c \in {x \in ValueCalls \cup ListCalls :
                  /\ x.routine = "single" /\ x.cmpres = PyNone
                  /\ x.refshape = <<46, 72>> /\ x.devshape \in LLShapes
                  /\ ~x.savepdf /\ (x.n_var > 1 => ~x.enforce_units)}}
\* an empty variable list written to a PDF
EmptyPdfCalls ==
    {Call(rt, <<46, 72>>, <<46, 72>>, PyNone, 0, 0, FALSE, FALSE, FALSE, NoArea, NoArea,
          TRUE, TRUE) : rt \in {"single", "zonal"}}
      \cup {Call(rt, <<6, 1>>, <<6, 1>>, PyStr(Label1x125), 0, 0, FALSE, FALSE, FALSE,
                 NoArea, NoArea, TRUE, TRUE) : rt \in {"gchp_single", "gchp_zonal"}}
Calls == GridCalls \cup ValueCalls \cup FlipCalls \cup AreaCalls \cup ListCalls
            \cup GchpAreaCalls \cup GchpListCalls \cup CbarCalls \cup EmptyPdfCalls
\* the calls that differ in the variable list and the PDF only: lists of no,
\* one and several variables
LoopCalls ==
    {c \in EmptyPdfCalls \cup ValueCalls \cup ListCalls \cup GchpListCalls :
        /\ c.refshape = c.devshape
        /\ c.n_var = 1 => c.cmpres = PyStr(Label4x5)
        /\ c.n_var > 1 => ~c.enforce_units}

\* the embedded AREAM2 of a dataset, uniform over its cells
AreaM2(shape) == IF shape = <<46, 72>> THEN Fin(2, 1) ELSE Fin(3, 1)

(***************************************************************************)
(* Inputs of one variable: refdata[varname] and devdata[varname].          *)
(***************************************************************************)
\* the dimensions of a field on a horizontal grid
LatLon == {"lat", "lon"}
TimeLatLon == {"time", "lat", "lon"}
LevLatLon == {"lev", "lat", "lon"}
TimeLevLatLon == {"time", "lev", "lat", "lon"}
\* does a field have a horizontal axis
HasLatLon(field) == "lat" \in field.dims \/ "lon" \in field.dims
HasBothLatLon(field) == "lat" \in field.dims /\ "lon" \in field.dims

ConstLayers(gridtype) ==
    {l \in LayersOf(gridtype) : \A i \in 1..Len(l) : l[i] = l[1] /\ l[1] \in {Zero, Fin(1, 1)}}
DimPairs == {<<LatLon, LatLon>>, <<TimeLatLon, TimeLatLon>>,
             <<LevLatLon, TimeLevLatLon>>, <<TimeLevLatLon, LevLatLon>>,
             <<TimeLatLon, LevLatLon>>}

MkField(dims, u, lev, base, delta) ==
    IF "lev" \in dims THEN LevField(dims, u, lev, base, delta) ELSE PlainField(dims, u, base)

VarInput(name, rf, df) == [varname |-> name, ref_field |-> rf, dev_field |-> df]

\* a cubed-sphere layer with the same value v on every face
Uniform(v) == [i \in 1..NFaces |-> Fin(v, 1)]

VarInputs(c, rtype, dtype) ==
    IF c.routine \in {"gchp_single", "gchp_zonal"} THEN
        IF c.n_var > 1
          THEN {VarInput(NameO3, LevField(TimeLevLatLon, StrPpb, c.ilev, Uniform(v), 1),
                         LevField(TimeLevLatLon, u, c.ilev, Uniform(1), 1)) :
                  v \in {0, 1}, u \in {StrPpb, StrKg}}
               \cup {VarInput(NameP0, PlainField({}, StrPpb, <<Fin(1, 1)>>),
                                      PlainField({}, StrPpb, <<Fin(1, 1)>>)),
                     VarInput(NameHyam, LevField({"lev"}, StrPpb, c.ilev, <<Fin(1, 1)>>, 1),
                                        LevField({"lev"}, StrPpb, c.ilev, <<Fin(1, 1)>>, 1))}
          ELSE {VarInput(nm, LevField(TimeLevLatLon, u, c.ilev, Uniform(v), 1),
                         LevField(TimeLevLatLon, u, c.ilev, Uniform(1), 2)) :
                  nm \in {NameO3, NameProdNO}, u \in {StrKg, StrPpb}, v \in {0, 1}}
    ELSE IF c.routine = "zonal" THEN
        IF c.n_var > 1 \/ c.normalize_by_area \/ c.refarea.given \/ c.devarea.given
          THEN {VarInput(nm, LevField(TimeLevLatLon, u[1], c.ilev, rb, 0),
                         LevField(LevLatLon, u[2], c.ilev, db, 1)) :
                  nm \in {NameO3, NameProdNO},
                  u \in {<<StrKg, StrKg>>, <<StrKg, StrPpb>>, <<StrPpb, StrPpbPadded>>},
                  rb \in ConstLayers(rtype), db \in ConstLayers(dtype)}
               \cup (IF c.n_var > 1
                       THEN {VarInput(NameHyam, LevField({"lev"}, StrPpb, c.ilev, <<v>>, 1),
                                      LevField({"lev"}, StrPpb, c.ilev, <<v>>, 1)) :
                               v \in {Zero, Fin(1, 1)}}
                       ELSE {})
        ELSE IF c.cmpres \notin FreeCmpres
          THEN {VarInput(NameO3, LevField(TimeLevLatLon, StrPpb, c.ilev, rb, 0),
                         LevField(LevLatLon, StrPpb, c.ilev, db, 1)) :
                  rb \in ConstLayers(rtype), db \in ConstLayers(dtype)}
        ELSE {VarInput(NameO3, LevField(TimeLevLatLon, StrPpb, c.ilev, rb, dl),
                       LevField(LevLatLon, StrPpb, c.ilev, db, dl)) :
                rb \in LayersOf(rtype), db \in LayersOf(dtype), dl \in {0, 1}}
    ELSE IF c.n_var > 1
      THEN {VarInput(NameO3, PlainField(LatLon, u[1], rb), PlainField(LatLon, u[2], db)) :
              u \in {<<StrPpb, StrPpb>>, <<StrKg, StrPpb>>, <<StrPpb, StrPpbPadded>>},
              rb \in ConstLayers(rtype), db \in ConstLayers(dtype)}
           \cup {VarInput(NameP0, PlainField({}, StrPpb, <<v>>), PlainField({}, StrPpb, <<v>>)) :
                   v \in {Zero, Fin(1, 1)}}
           \cup {VarInput(NameHyam, LevField({"lev"}, StrPpb, c.ilev, <<v>>, 1),
                                    LevField({"lev"}, StrPpb, c.ilev, <<v>>, 1)) :
                   v \in {Zero, Fin(1, 1)}}
    ELSE IF c.flip_ref \/ c.flip_dev \/ c.ilev # 0
      THEN {VarInput(NameO3, MkField(dp[1], StrPpb, c.ilev, rb, 1),
                     MkField(dp[2], StrPpb, c.ilev, db, 2)) :
              dp \in DimPairs, rb \in ConstLayers(rtype), db \in LayersOf(dtype)}
    ELSE IF c.normalize_by_area \/ c.refarea.given \/ c.devarea.given
      THEN {VarInput(nm, PlainField(LatLon, u, rb), PlainField(TimeLatLon, u, db)) :
              nm \in {NameO3, NameProdNO}, u \in {StrKg, StrKgC, StrPpb},
              rb \in ConstLayers(rtype), db \in ConstLayers(dtype)}
    ELSE IF c.cmpres \notin FreeCmpres
      THEN {VarInput(NameO3, PlainField(LatLon, u, rb), PlainField(LatLon, u, db)) :
              u \in {StrKg, StrPpb}, rb \in ConstLayers(rtype), db \in ConstLayers(dtype)}
    ELSE {VarInput(NameO3, PlainField(LatLon, StrPpb, rb), PlainField(LatLon, StrPpb, db)) :
              rb \in LayersOf(rtype), db \in LayersOf(dtype)}

StripNothing(t) == t
\* str.strip(): drop leading and trailing whitespace
IsSpace(ch) == ch \in {32, 9, 10, 13}
RECURSIVE LStrip(_)
LStrip(t) == IF t # <<>> /\ IsSpace(Head(t)) THEN LStrip(Tail(t)) ELSE t
RECURSIVE RStrip(_)
RStrip(t) ==
    IF t # <<>> /\ IsSpace(t[Len(t)]) THEN RStrip(SubSeq(t, 1, Len(t) - 1)) ELSE t
Strip(t) == RStrip(LStrip(t))

(***************************************************************************)
(* State.                                                                  *)
(***************************************************************************)
VARIABLES
    args,           \* the arguments of the call
    pc,             \* the section of the routine about to run
    refres, refgridtype, devres, devgridtype,
    cmpres, cmpgridtype,
    regridref, regriddev, regridany,
    grid_calls,     \* make_grid_LL / make_grid_CS calls so far, in order
    regridder_calls,\* make_regridder_L2L / make_regridder_C2L calls so far
    refregridder, devregridder,   \* the operators obtained
    pdf,            \* "none", "open" or "closed"
    pages,          \* the variables of the pages saved, in order
    ivar, print_units_warning,
    warnings,       \* number of unit warnings printed
    varname, ref_field, dev_field,        \* refdata[varname], devdata[varname]
    refdata_var, devdata_var,   \* the same two variables as the caller of
                                \* compare_single_level holds them now
    units_ref, units_dev, units, subtitle_extra,
    ds_ref, ds_dev, ds_ref_cmp, ds_dev_cmp,
    panel_ref, panel_dev,   \* [vmin, vmax] of the Ref and Dev panels of compare_single_level
    absdiff,        \* zm_diff in compare_zonal_mean
    diffabsmax, abspctmax,
    fracdiff,       \* zm_fracdiff in compare_zonal_mean
    fracdiffabsmax,
    fracrange,      \* [vmin, vmax] of the fractional-difference dynamic-range panel
    stopped_by,     \* the statement that ended the run early: a return or an exception
    dim_messages    \* the variables a dimension error was printed for, in order

gridvars == <<refres, refgridtype, devres, devgridtype, cmpres, cmpgridtype,
              regridref, regriddev, regridany>>
callvars == <<grid_calls, regridder_calls, refregridder, devregridder>>
pdfvars == <<pdf, pages>>
loopvars == <<ivar, print_units_warning, warnings>>
fieldvars == <<varname, ref_field, dev_field, refdata_var, devdata_var>>
unitvars == <<units_ref, units_dev, units, subtitle_extra>>
layervars == <<ds_ref, ds_dev>>
cmpvars == <<ds_ref_cmp, ds_dev_cmp, panel_ref, panel_dev>>
diffvars == <<absdiff, diffabsmax, abspctmax>>
fracvars == <<fracdiff, fracdiffabsmax, fracrange>>
outvars == <<stopped_by, dim_messages>>
varvars == <<fieldvars, unitvars, layervars, cmpvars, diffvars, fracvars>>
vars == <<args, pc, gridvars, callvars, pdfvars, loopvars, varvars, outvars>>

\* a local that has not been assigned yet
Unbound == [k |-> "unbound", n |-> 0, d |-> 1]
NoField == [dims |-> {}, units |-> <<>>, layer |-> <<>>]

Init ==
    /\ args \in Calls
    /\ pc = IF args.routine \in {"single", "zonal"} THEN "classify_ref" ELSE "grids"
    /\ refres = PyNone /\ refgridtype = "none"
    /\ devres = PyNone /\ devgridtype = "none"
    /\ cmpres = args.cmpres /\ cmpgridtype = "none"
    /\ regridref = FALSE /\ regriddev = FALSE /\ regridany = FALSE
    /\ grid_calls = <<>> /\ regridder_calls = <<>>
    /\ refregridder = "none" /\ devregridder = "none"
    /\ pdf = "none" /\ pages = <<>>
    /\ ivar = -1 /\ print_units_warning = TRUE /\ warnings = 0
    /\ varname = <<>> /\ ref_field = NoField /\ dev_field = NoField
    /\ refdata_var = NoField /\ devdata_var = NoField
    /\ units_ref = <<>> /\ units_dev = <<>> /\ units = <<>> /\ subtitle_extra = ""
    /\ ds_ref = <<>> /\ ds_dev = <<>> /\ ds_ref_cmp = <<>> /\ ds_dev_cmp = <<>>
    /\ panel_ref = <<Unbound, Unbound>> /\ panel_dev = <<Unbound, Unbound>>
    /\ absdiff = <<>> /\ diffabsmax = Unbound /\ abspctmax = Unbound
    /\ fracdiff = <<>> /\ fracdiffabsmax = Unbound
    /\ fracrange = <<Unbound, Unbound>>
    /\ stopped_by = "" /\ dim_messages = <<>>

(***************************************************************************)
(* Grid handling of compare_single_level.                                  *)
(***************************************************************************)
\* lines 261-275
SL_ClassifyRef ==
    /\ args.routine = "single" /\ pc = "classify_ref"
    /\ LET c == Classify(args.refshape[1], args.refshape[2]) IN
         IF c.ok
           THEN /\ refres' = c.res /\ refgridtype' = c.gridtype
                /\ pc' = "classify_dev"
           ELSE /\ pc' = "returned"
                /\ UNCHANGED <<refres, refgridtype>>
    /\ UNCHANGED <<args, devres, devgridtype, cmpres, cmpgridtype,
                   regridref, regriddev, regridany, callvars, pdfvars, loopvars, varvars>>
    /\ stopped_by' = IF pc' = "returned" THEN "ref grid" ELSE stopped_by
    /\ UNCHANGED dim_messages

\* lines 277-291
SL_ClassifyDev ==
    /\ args.routine = "single" /\ pc = "classify_dev"
    /\ LET c == Classify(args.devshape[1], args.devshape[2]) IN
         IF c.ok
           THEN /\ devres' = c.res /\ devgridtype' = c.gridtype
                /\ pc' = "resolve"
           ELSE /\ pc' = "returned"
                /\ UNCHANGED <<devres, devgridtype>>
    /\ UNCHANGED <<args, refres, refgridtype, cmpres, cmpgridtype,
                   regridref, regriddev, regridany, callvars, pdfvars, loopvars, varvars>>
    /\ stopped_by' = IF pc' = "returned" THEN "dev grid" ELSE stopped_by
    /\ UNCHANGED dim_messages

\* lines 299-320
SL_ResolveCmp ==
    /\ args.routine = "single" /\ pc = "resolve"
    /\ LET r == ResolveCmp(cmpres, refres, refgridtype, devres, devgridtype) IN
         IF r.err
           THEN /\ pc' = "raised"
                /\ UNCHANGED <<cmpres, cmpgridtype, regridref, regriddev, regridany>>
           ELSE /\ cmpres' = r.res
                /\ cmpgridtype' = r.gridtype
                /\ regridref' = PyNe(refres, r.res)
                /\ regriddev' = PyNe(devres, r.res)
                /\ regridany' = (PyNe(refres, r.res) \/ PyNe(devres, r.res))
                /\ pc' = "grids"
    /\ UNCHANGED <<args, refres, refgridtype, devres, devgridtype,
                   callvars, pdfvars, loopvars, varvars>>
    /\ stopped_by' = IF pc' = "raised" THEN "cmpres" ELSE stopped_by
    /\ UNCHANGED dim_messages

\* one make_grid_LL / make_grid_CS call
GridCall(gridtype, res) ==
    [fn |-> IF gridtype = "ll" THEN "make_grid_LL" ELSE "make_grid_CS", res |-> res]

\* lines 326-342
SL_MakeGrids ==
    /\ args.routine = "single" /\ pc = "grids"
    /\ grid_calls' = grid_calls \o <<GridCall(refgridtype, refres),
                                     GridCall(devgridtype, devres),
                                     GridCall(cmpgridtype, cmpres)>>
    /\ pc' = "regridders"
    /\ UNCHANGED <<args, gridvars, regridder_calls, refregridder, devregridder,
                   pdfvars, loopvars, varvars>>
    /\ UNCHANGED outvars

\* one make_regridder_L2L / make_regridder_C2L call of lines 348-357
RegridderCall(who, gridtype, res, target) ==
    [fn |-> IF gridtype = "ll" THEN "make_regridder_L2L" ELSE "make_regridder_C2L",
     who |-> who, src |-> res, dst |-> target, reuse_weights |-> TRUE,
     weightsdir |-> "weightsdir"]

\* the operators two calls return: one key (source, target), one operator
SameKeySameOp(rop, dop) ==
    (regridref /\ regriddev /\ refres = devres) => rop = dop

\* lines 348-357
SL_MakeRegridders ==
    /\ args.routine = "single" /\ pc = "regridders"
    /\ regridder_calls' = regridder_calls
          \o (IF regridref
                THEN <<RegridderCall("ref", refgridtype, refres, cmpres)>> ELSE <<>>)
          \o (IF regriddev
                THEN <<RegridderCall("dev", devgridtype, devres, cmpres)>> ELSE <<>>)
    /\ \E rop \in OpKinds, dop \in OpKinds :
          /\ SameKeySameOp(rop, dop)
          /\ refregridder' = IF regridref THEN rop ELSE "none"
          /\ devregridder' = IF regriddev THEN dop ELSE "none"
    /\ pc' = "pdf"
    /\ UNCHANGED <<args, gridvars, grid_calls, pdfvars, loopvars, varvars>>
    /\ UNCHANGED outvars

(***************************************************************************)
(* The variable loop of compare_single_level.                              *)
(***************************************************************************)
\* lines 377-379
SL_OpenPdf ==
    /\ args.routine = "single" /\ pc = "pdf"
    /\ pdf' = IF args.savepdf THEN "open" ELSE pdf
    /\ pc' = "loop"
    /\ UNCHANGED <<args, gridvars, callvars, pages, loopvars, varvars>>
    /\ UNCHANGED outvars

\* lines 386-388: the next variable of varlist, or the end of the loop
SL_LoopHead ==
    /\ args.routine = "single" /\ pc = "loop"
    /\ IF ivar + 1 < args.n_var
         THEN /\ ivar' = ivar + 1
              /\ \E v \in VarInputs(args, refgridtype, devgridtype) :
                    /\ varname' = v.varname
                    /\ ref_field' = v.ref_field
                    /\ dev_field' = v.dev_field
                    /\ refdata_var' = v.ref_field
                    /\ devdata_var' = v.dev_field
              /\ pc' = "units"
         ELSE /\ pc' = "finish"
              /\ UNCHANGED <<ivar, fieldvars>>
    /\ UNCHANGED <<args, gridvars, callvars, pdfvars, print_units_warning, warnings,
                   unitvars, layervars, cmpvars, diffvars, fracvars>>
    /\ UNCHANGED outvars

\* lines 391-405
SL_CheckUnits ==
    /\ args.routine = "single" /\ pc = "units"
    /\ LET ur == Strip(ref_field.units)
           ud == Strip(dev_field.units)
       IN  /\ units_ref' = ur
           /\ units_dev' = ud
           /\ warnings' = IF ur # ud /\ print_units_warning THEN warnings + 1 ELSE warnings
           /\ print_units_warning' =
                 IF ur # ud /\ ~args.enforce_units THEN FALSE ELSE print_units_warning
           /\ pc' = IF ur # ud /\ args.enforce_units THEN "raised" ELSE "slice"
    /\ UNCHANGED <<args, gridvars, callvars, pdfvars, ivar, fieldvars, units, subtitle_extra,
                   layervars, cmpvars, diffvars, fracvars>>
    /\ stopped_by' = IF pc' = "raised" THEN "units" ELSE stopped_by
    /\ UNCHANGED dim_messages

\* lines 411-443
SL_Slice ==
    /\ args.routine = "single" /\ pc = "slice"
    /\ ds_ref' = SliceLayer(ref_field, args.flip_ref, args.ilev)
    /\ ds_dev' = SliceLayer(dev_field, args.flip_dev, args.ilev)
    /\ pc' = "normalize"
    /\ UNCHANGED <<args, gridvars, callvars, pdfvars, loopvars, fieldvars, unitvars,
                   cmpvars, diffvars, fracvars>>
    /\ UNCHANGED outvars

\* lines 426 and 443: without a time and a lev axis the layer is
\* refdata[varname] itself, the DataArray on the caller's variable; isel
\* gives a new one
IsCallersArray(field) == "time" \notin field.dims /\ "lev" \notin field.dims
\* lines 462-466:  ds.values = ...  replaces the data of the variable that
\* ds stands on
ValuesSet(field, held, layer) ==
    IF IsCallersArray(field) THEN [held EXCEPT !.layer = layer] ELSE held

\* lines 449-470
SL_Normalize ==
    /\ args.routine = "single" /\ pc = "normalize"
    /\ IF Normalizes(regridany, units_ref, args.normalize_by_area, varname)
         THEN LET rdiv == Divisor(args.refarea, args.devarea, AreaM2(args.refshape))
                  ddiv == Divisor(args.devarea, args.refarea, AreaM2(args.devshape))
              IN  IF rdiv.err
                    THEN /\ pc' = "raised"
                         /\ units' = units_ref /\ subtitle_extra' = ""
                         /\ UNCHANGED <<units_ref, units_dev, ds_ref, ds_dev,
                                        refdata_var, devdata_var>>
                  ELSE IF ddiv.err
                    THEN /\ pc' = "raised"
                         /\ ds_ref' = ArrDivScalar(ds_ref, rdiv.a)
                         /\ refdata_var' = ValuesSet(ref_field, refdata_var, ds_ref')
                         /\ units' = units_ref /\ subtitle_extra' = ""
                         /\ UNCHANGED <<units_ref, units_dev, ds_dev, devdata_var>>
                  ELSE /\ ds_ref' = ArrDivScalar(ds_ref, rdiv.a)
                       /\ ds_dev' = ArrDivScalar(ds_dev, ddiv.a)
                       /\ refdata_var' = ValuesSet(ref_field, refdata_var, ds_ref')
                       /\ devdata_var' = ValuesSet(dev_field, devdata_var, ds_dev')
                       /\ units' = units_ref \o StrPerM2
                       /\ units_ref' = units_ref \o StrPerM2
                       /\ units_dev' = units_ref \o StrPerM2
                       /\ subtitle_extra' = StrNormalized
                       /\ pc' = "regrid"
         ELSE /\ units' = units_ref /\ subtitle_extra' = ""
              /\ pc' = "regrid"
              /\ UNCHANGED <<units_ref, units_dev, ds_ref, ds_dev, refdata_var, devdata_var>>
    /\ UNCHANGED <<args, gridvars, callvars, pdfvars, loopvars, varname, ref_field,
                   dev_field, cmpvars, diffvars, fracvars>>
    /\ stopped_by' = IF pc' = "raised" THEN "area" ELSE stopped_by
    /\ UNCHANGED dim_messages

\* lines 548-550: the range across the native and the comparison layers
RangeAcross(ref, dev, ref_cmp, dev_cmp) ==
    LET vmin_cmp == NpMin(<<NpMin(ref_cmp), NpMin(dev_cmp)>>)
        vmax_cmp == NpMax(<<NpMax(ref_cmp), NpMax(dev_cmp)>>)
    IN  << NpMin(<<NpMin(ref), NpMin(dev), vmin_cmp>>),
           NpMax(<<NpMax(ref), NpMax(dev), vmax_cmp>>) >>
RefPanelOfDev(match, ref, dev, ref_cmp, dev_cmp) ==
    IF match THEN RangeAcross(ref, dev, ref_cmp, dev_cmp) ELSE <<NpMin(dev), NpMax(dev)>>
\* lines 550 and 578: [vmin, vmax] of the Ref panel
RefPanel(match, ref, dev, ref_cmp, dev_cmp) ==
    IF match THEN RangeAcross(ref, dev, ref_cmp, dev_cmp) ELSE <<NpMin(ref), NpMax(ref)>>
\* lines 550 and 598: [vmin, vmax] of the Dev panel
DevPanel(match, ref, dev, ref_cmp, dev_cmp) ==
    IF match THEN RangeAcross(ref, dev, ref_cmp, dev_cmp) ELSE <<NpMin(dev), NpMax(dev)>>

\* lines 562-570: is 'Incorrect dimensions' printed.  'lat' in devdata[varname]
\* asks whether the string is one of the values of the array, which it never
\* is, so the second branch of the test is never taken.
TitleComplains(rf, df) == ~("lev" \in rf.dims /\ "lev" \in df.dims)

\* lines 476-513 (regridding), 519-550 (the panel range), 562-570 (the page title)
\* and 577-600 (the Ref and Dev panels)
SL_Regrid ==
    /\ args.routine = "single" /\ pc = "regrid"
    /\ IF HasLatLon(ref_field) /\ HasLatLon(dev_field)
         THEN /\ ds_ref_cmp' = OnCmpGrid(regridref, refgridtype, refregridder, ds_ref)
              /\ ds_dev_cmp' = OnCmpGrid(regriddev, devgridtype, devregridder, ds_dev)
              /\ IF ReshapeRaises(cmpgridtype, cmpres, regridref, regriddev)
                   THEN UNCHANGED <<panel_ref, panel_dev>>
                   ELSE /\ panel_ref' = RefPanel(args.match_cbar, ds_ref, ds_dev,
                                                 ds_ref_cmp', ds_dev_cmp')
                        /\ panel_dev' = DevPanel(args.match_cbar, ds_ref, ds_dev,
                                                 ds_ref_cmp', ds_dev_cmp')
              /\ pc' = IF ReshapeRaises(cmpgridtype, cmpres, regridref, regriddev)
                         THEN "raised" ELSE "diff"
              /\ stopped_by' = IF ReshapeRaises(cmpgridtype, cmpres, regridref, regriddev)
                                 THEN "reshape" ELSE stopped_by
              /\ dim_messages' = IF ~ReshapeRaises(cmpgridtype, cmpres, regridref, regriddev)
                                      /\ TitleComplains(ref_field, dev_field)
                                   THEN Append(dim_messages, varname) ELSE dim_messages
         ELSE \* a layer without lat and lon
              IF regridany \/ refgridtype = "cs" \/ devgridtype = "cs"
                THEN \* the reshape of line 478/480 or the regridder of line 485/499
                     /\ pc' = "raised"
                     /\ stopped_by' = IF refgridtype = "cs" \/ devgridtype = "cs"
                                        THEN "reshape" ELSE "regrid"
                     /\ UNCHANGED <<cmpvars, dim_messages>>
                ELSE \* the layers are used as they are; imshow (line 579) is
                     \* handed a layer that is not 2-D and either raises or draws
                     /\ ds_ref_cmp' = ds_ref /\ ds_dev_cmp' = ds_dev
                     /\ dim_messages' = IF TitleComplains(ref_field, dev_field)
                                          THEN Append(dim_messages, varname)
                                          ELSE dim_messages
                     /\ panel_ref' = RefPanel(args.match_cbar, ds_ref, ds_dev, ds_ref, ds_dev)
                     /\ \E drawn \in BOOLEAN :
                           /\ pc' = IF drawn THEN "diff" ELSE "raised"
                           /\ stopped_by' = IF drawn THEN stopped_by ELSE "imshow"
                           /\ panel_dev' = IF drawn
                                             THEN DevPanel(args.match_cbar, ds_ref, ds_dev,
                                                           ds_ref, ds_dev)
                                             ELSE panel_dev
    /\ UNCHANGED <<args, gridvars, callvars, pdfvars, loopvars, fieldvars, unitvars,
                   layervars, diffvars, fracvars>>

\* lines 618-631
SL_Diff ==
    /\ args.routine = "single" /\ pc = "diff"
    /\ absdiff' = AbsDiff(ds_dev_cmp, ds_ref_cmp)
    /\ diffabsmax' = NanAbsMax(AbsDiff(ds_dev_cmp, ds_ref_cmp))
    /\ pc' = "restricted"
    /\ UNCHANGED <<args, gridvars, callvars, pdfvars, loopvars, fieldvars, unitvars,
                   layervars, cmpvars, abspctmax, fracvars>>
    /\ UNCHANGED outvars

\* lines 656-660
SL_Restricted ==
    /\ args.routine = "single" /\ pc = "restricted"
    /\ abspctmax' = AbsPctMax(absdiff)
    /\ pc' = "fracdiff"
    /\ UNCHANGED <<args, gridvars, callvars, pdfvars, loopvars, fieldvars, unitvars,
                   layervars, cmpvars, absdiff, diffabsmax, fracvars>>
    /\ UNCHANGED outvars

\* lines 685-698
SL_FracDiff ==
    /\ args.routine = "single" /\ pc = "fracdiff"
    /\ LET fd == FracDiff(ds_dev_cmp, ds_ref_cmp) IN
         /\ fracdiff' = fd
         /\ fracdiffabsmax' = NanAbsMax(fd)
         /\ fracrange' = Symmetric(NanAbsMax(fd))
    /\ pc' = "savefig"
    /\ UNCHANGED <<args, gridvars, callvars, pdfvars, loopvars, fieldvars, unitvars,
                   layervars, cmpvars, diffvars>>
    /\ UNCHANGED outvars

SL_SaveFigNoPage ==
    /\ args.routine = "single" /\ pc = "savefig"
    /\ pc' = "loop"
    /\ UNCHANGED <<args, gridvars, callvars, pdfvars, loopvars, varvars>>
    /\ UNCHANGED outvars
\* lines 745-747
SL_SaveFig ==
    /\ args.routine = "single" /\ pc = "savefig"
    /\ pages' = IF args.savepdf THEN Append(pages, varname) ELSE pages
    /\ pc' = "loop"
    /\ UNCHANGED <<args, gridvars, callvars, pdf, loopvars, varvars>>
    /\ UNCHANGED outvars

\* line 753
SL_Finish ==
    /\ args.routine = "single" /\ pc = "finish"
    /\ pdf' = IF args.savepdf THEN "closed" ELSE pdf
    /\ pc' = "done"
    /\ UNCHANGED <<args, gridvars, callvars, pages, loopvars, varvars>>
    /\ UNCHANGED outvars

(***************************************************************************)
(* compare_zonal_mean                                                      *)
(***************************************************************************)
\* lines 1118-1133
ZM_ClassifyRef ==
    /\ args.routine = "zonal" /\ pc = "classify_ref"
    /\ LET c == ZMClassify(args.refshape[1], args.refshape[2]) IN
         IF c.ok
           THEN /\ refres' = c.res /\ refgridtype' = c.gridtype
                /\ pc' = "classify_dev"
           ELSE /\ pc' = "returned"
                /\ UNCHANGED <<refres, refgridtype>>
    /\ UNCHANGED <<args, devres, devgridtype, cmpres, cmpgridtype,
                   regridref, regriddev, regridany, callvars, pdfvars, loopvars, varvars>>
    /\ stopped_by' = IF pc' = "returned" THEN "ref grid" ELSE stopped_by
    /\ UNCHANGED dim_messages

\* lines 1135-1144
ZM_ClassifyDev ==
    /\ args.routine = "zonal" /\ pc = "classify_dev"
    /\ LET c == ZMClassify(args.devshape[1], args.devshape[2]) IN
         IF c.ok
           THEN /\ devres' = c.res /\ devgridtype' = c.gridtype
                /\ pc' = "resolve"
           ELSE /\ pc' = "returned"
                /\ UNCHANGED <<devres, devgridtype>>
    /\ UNCHANGED <<args, refres, refgridtype, cmpres, cmpgridtype,
                   regridref, regriddev, regridany, callvars, pdfvars, loopvars, varvars>>
    /\ stopped_by' = IF pc' = "returned" THEN "dev grid" ELSE stopped_by
    /\ UNCHANGED dim_messages

\* lines 1152-1162
ZM_ResolveCmp ==
    /\ args.routine = "zonal" /\ pc = "resolve"
    /\ LET r == ZMResolveCmp(cmpres, refres, devres) IN
         /\ cmpres' = r
         /\ regridref' = PyNe(refres, r)
         /\ regriddev' = PyNe(devres, r)
         /\ regridany' = (PyNe(refres, r) \/ PyNe(devres, r))
    /\ pc' = "grids"
    /\ UNCHANGED <<args, refres, refgridtype, devres, devgridtype, cmpgridtype,
                   callvars, pdfvars, loopvars, varvars>>
    /\ UNCHANGED outvars

\* lines 1164-1171
ZM_MakeGrids ==
    /\ args.routine = "zonal" /\ pc = "grids"
    /\ grid_calls' = grid_calls \o <<GridCall("ll", refres), GridCall("ll", devres),
                                     GridCall("ll", cmpres)>>
    /\ regridder_calls' = regridder_calls
          \o (IF regridref
                THEN <<RegridderCall("ref", "ll", refres, cmpres)>> ELSE <<>>)
          \o (IF regriddev
                THEN <<RegridderCall("dev", "ll", devres, cmpres)>> ELSE <<>>)
    /\ \E rop \in OpKinds, dop \in OpKinds :
          /\ SameKeySameOp(rop, dop)
          /\ refregridder' = IF regridref THEN rop ELSE "none"
          /\ devregridder' = IF regriddev THEN dop ELSE "none"
    /\ pc' = "pdf"
    /\ UNCHANGED <<args, gridvars, pdfvars, loopvars, varvars>>
    /\ UNCHANGED outvars

\* lines 1188-1190
ZM_OpenPdf ==
    /\ args.routine = "zonal" /\ pc = "pdf"
    /\ pdf' = IF args.savepdf THEN "open" ELSE pdf
    /\ pc' = "loop"
    /\ UNCHANGED <<args, gridvars, callvars, pages, loopvars, varvars>>
    /\ UNCHANGED outvars

\* lines 1194-1196: the next variable of varlist, or the end of the loop
ZM_LoopHead ==
    /\ args.routine = "zonal" /\ pc = "loop"
    /\ IF ivar + 1 < args.n_var
         THEN /\ ivar' = ivar + 1
              /\ \E v \in VarInputs(args, refgridtype, devgridtype) :
                    /\ varname' = v.varname
                    /\ ref_field' = v.ref_field
                    /\ dev_field' = v.dev_field
              /\ UNCHANGED <<refdata_var, devdata_var>>
              /\ pc' = "units"
         ELSE /\ pc' = "finish"
              /\ UNCHANGED <<ivar, fieldvars>>
    /\ UNCHANGED <<args, gridvars, callvars, pdfvars, print_units_warning, warnings,
                   unitvars, layervars, cmpvars, diffvars, fracvars>>
    /\ UNCHANGED outvars

\* lines 1199-1216
ZM_CheckUnits ==
    /\ args.routine = "zonal" /\ pc = "units"
    /\ LET ur == Strip(ref_field.units)
           ud == Strip(dev_field.units)
       IN  /\ units_ref' = ur
           /\ units_dev' = ud
           /\ warnings' = IF ur # ud /\ print_units_warning THEN warnings + 1 ELSE warnings
           /\ print_units_warning' =
                 IF ur # ud /\ ~args.enforce_units THEN FALSE ELSE print_units_warning
           /\ pc' = IF ur # ud /\ args.enforce_units THEN "raised" ELSE "slice"
    /\ UNCHANGED <<args, gridvars, callvars, pdfvars, ivar, fieldvars, units, subtitle_extra,
                   layervars, cmpvars, diffvars, fracvars>>
    /\ stopped_by' = IF pc' = "raised" THEN "units" ELSE stopped_by
    /\ UNCHANGED dim_messages

\* lines 1229-1241
ZM_Slice ==
    /\ args.routine = "zonal" /\ pc = "slice"
    /\ ds_ref' = ZMSlice(ref_field, args.ilev)
    /\ ds_dev' = ZMSlice(dev_field, args.ilev)
    /\ pc' = "normalize"
    /\ UNCHANGED <<args, gridvars, callvars, pdfvars, loopvars, fieldvars, unitvars,
                   cmpvars, diffvars, fracvars>>
    /\ UNCHANGED outvars

\* lines 1221-1224 and 1243-1249
ZM_Normalize ==
    /\ args.routine = "zonal" /\ pc = "normalize"
    /\ IF args.normalize_by_area /\ ~Excluded(varname)
         THEN /\ ds_ref' = [l \in 1..Len(ds_ref) |->
                              ArrDivScalar(ds_ref[l], AreaM2(args.refshape))]
              /\ ds_dev' = [l \in 1..Len(ds_dev) |->
                              ArrDivScalar(ds_dev[l], AreaM2(args.devshape))]
              /\ units' = units_ref \o StrM2
              /\ subtitle_extra' = StrNormalized
         ELSE /\ units' = units_ref /\ subtitle_extra' = ""
              /\ UNCHANGED <<ds_ref, ds_dev>>
    /\ pc' = "regrid"
    /\ UNCHANGED <<args, gridvars, callvars, pdfvars, loopvars, fieldvars,
                   units_ref, units_dev, cmpvars, diffvars, fracvars>>
    /\ UNCHANGED outvars

\* lines 1251-1259
ZM_Regrid ==
    /\ args.routine = "zonal" /\ pc = "regrid"
    /\ IF (regridref /\ ~HasLatLon(ref_field)) \/ (regriddev /\ ~HasLatLon(dev_field))
         THEN \* the regridder is handed a layer without lat and lon
              /\ pc' = "raised" /\ stopped_by' = "regrid"
              /\ UNCHANGED <<ds_ref_cmp, ds_dev_cmp>>
         ELSE /\ ds_ref_cmp' = ZMOnCmpGrid(regridref, refregridder, ds_ref)
              /\ ds_dev_cmp' = ZMOnCmpGrid(regriddev, devregridder, ds_dev)
              /\ pc' = "diff"
              /\ UNCHANGED stopped_by
    /\ UNCHANGED <<args, gridvars, callvars, pdfvars, loopvars, fieldvars, unitvars,
                   layervars, diffvars, fracvars, dim_messages, panel_ref, panel_dev>>

\* lines 1261-1265 and 1316-1321
ZM_Diff ==
    /\ args.routine = "zonal" /\ pc = "diff"
    /\ IF HasLatLon(ref_field) /\ HasLatLon(dev_field)
         THEN LET zm_diff == ArrSub(ZonalMean(ds_dev_cmp), ZonalMean(ds_ref_cmp)) IN
                /\ absdiff' = zm_diff
                /\ diffabsmax' = AbsMax(zm_diff)
                /\ pc' = "restricted"
                /\ UNCHANGED stopped_by
         ELSE \* .mean(dim='lon') of a layer without a lon axis
              /\ pc' = "raised" /\ stopped_by' = "mean"
              /\ UNCHANGED <<absdiff, diffabsmax>>
    /\ UNCHANGED <<args, gridvars, callvars, pdfvars, loopvars, fieldvars, unitvars,
                   layervars, cmpvars, abspctmax, fracvars, dim_messages>>

\* lines 1341-1343
ZM_Restricted ==
    /\ args.routine = "zonal" /\ pc = "restricted"
    /\ abspctmax' = AbsPctMax(absdiff)
    /\ pc' = "fracdiff"
    /\ UNCHANGED <<args, gridvars, callvars, pdfvars, loopvars, fieldvars, unitvars,
                   layervars, cmpvars, absdiff, diffabsmax, fracvars>>
    /\ UNCHANGED outvars

\* lines 1362-1370
ZM_FracDiff ==
    /\ args.routine = "zonal" /\ pc = "fracdiff"
    /\ LET fd == ZMFracDiff(ZonalMean(ds_dev_cmp), ZonalMean(ds_ref_cmp)) IN
         /\ fracdiff' = fd
         /\ fracdiffabsmax' = AbsMax(fd)
         /\ fracrange' = ZMFracRange(fd)
    /\ pc' = "savefig"
    /\ UNCHANGED <<args, gridvars, callvars, pdfvars, loopvars, fieldvars, unitvars,
                   layervars, cmpvars, diffvars>>
    /\ UNCHANGED outvars

\* lines 1411-1413
ZM_SaveFig ==
    /\ args.routine = "zonal" /\ pc = "savefig"
    /\ pages' = IF args.savepdf THEN Append(pages, varname) ELSE pages
    /\ pc' = "loop"
    /\ UNCHANGED <<args, gridvars, callvars, pdf, loopvars, varvars>>
    /\ UNCHANGED outvars

\* line 1415
ZM_Finish ==
    /\ args.routine = "zonal" /\ pc = "finish"
    /\ pdf' = IF args.savepdf THEN "closed" ELSE pdf
    /\ pc' = "done"
    /\ UNCHANGED <<args, gridvars, callvars, pages, loopvars, varvars>>
    /\ UNCHANGED outvars

(***************************************************************************)
(* compare_gchp_single_level: both inputs are cubed-sphere and are         *)
(* compared face by face without regridding.                               *)
(***************************************************************************)
\* lines 768-771: the face size is the size of 'lon'; nothing is classified
GS_MakeGrids ==
    /\ args.routine = "gchp_single" /\ pc = "grids"
    /\ refres' = PyInt(args.refshape[2]) /\ refgridtype' = "cs"
    /\ devres' = PyInt(args.devshape[2]) /\ devgridtype' = "cs"
    /\ grid_calls' = grid_calls \o <<GridCall("cs", PyInt(args.refshape[2])),
                                     GridCall("cs", PyInt(args.devshape[2]))>>
    /\ pc' = "pdf"
    /\ UNCHANGED <<args, cmpres, cmpgridtype, regridref, regriddev, regridany,
                   regridder_calls, refregridder, devregridder,
                   pdfvars, loopvars, varvars, outvars>>

\* lines 774-776
GS_OpenPdf ==
    /\ args.routine = "gchp_single" /\ pc = "pdf"
    /\ pdf' = IF args.savepdf THEN "open" ELSE pdf
    /\ pc' = "loop"
    /\ UNCHANGED <<args, gridvars, callvars, pages, loopvars, varvars, outvars>>

\* lines 779-781
GS_LoopHead ==
    /\ args.routine = "gchp_single" /\ pc = "loop"
    /\ IF ivar + 1 < args.n_var
         THEN /\ ivar' = ivar + 1
              /\ \E v \in VarInputs(args, refgridtype, devgridtype) :
                    /\ varname' = v.varname
                    /\ ref_field' = v.ref_field
                    /\ dev_field' = v.dev_field
              /\ UNCHANGED <<refdata_var, devdata_var>>
              /\ pc' = "units"
         ELSE /\ pc' = "finish"
              /\ UNCHANGED <<ivar, fieldvars>>
    /\ UNCHANGED <<args, gridvars, callvars, pdfvars, print_units_warning, warnings,
                   unitvars, layervars, cmpvars, diffvars, fracvars, outvars>>

\* lines 784-791: with check_units, two assertions; the units are not stripped
GS_CheckUnits ==
    /\ args.routine = "gchp_single" /\ pc = "units"
    /\ IF args.enforce_units /\ Cardinality(ref_field.dims) # Cardinality(dev_field.dims)
         THEN /\ pc' = "raised" /\ stopped_by' = "ndim"
              /\ UNCHANGED <<units_ref, units_dev>>
         ELSE /\ units_ref' = ref_field.units
              /\ units_dev' = dev_field.units
              /\ IF args.enforce_units /\ ref_field.units # dev_field.units
                   THEN pc' = "raised" /\ stopped_by' = "units"
                   ELSE pc' = "slice" /\ UNCHANGED stopped_by
    /\ UNCHANGED <<args, gridvars, callvars, pdfvars, loopvars, fieldvars, units,
                   subtitle_extra, layervars, cmpvars, diffvars, fracvars, dim_messages>>

\* lines 794-822: ref and dev are both sliced by the dimensions of ref; a
\* variable without time, lev, lat and lon is reported and not sliced, so
\* ds_ref and ds_dev keep what the previous variable left in them
GS_Slice ==
    /\ args.routine = "gchp_single" /\ pc = "slice"
    /\ units' = units_ref /\ subtitle_extra' = ""
    /\ IF "lev" \in ref_field.dims
         THEN IF "lev" \in dev_field.dims
                    /\ ("time" \in ref_field.dims => "time" \in dev_field.dims)
                THEN /\ ds_ref' = ref_field.levels[LevIndex(args.flip_ref, args.ilev)]
                     /\ ds_dev' = dev_field.levels[LevIndex(args.flip_ref, args.ilev)]
                     /\ pc' = "normalize"
                     /\ UNCHANGED outvars
                ELSE \* devdata[varname].isel(...) along an axis dev does not have
                     /\ pc' = "raised" /\ stopped_by' = "isel"
                     /\ UNCHANGED <<ds_ref, ds_dev, dim_messages>>
         ELSE IF "time" \in ref_field.dims /\ "time" \notin dev_field.dims
           THEN /\ pc' = "raised" /\ stopped_by' = "isel"
                /\ UNCHANGED <<ds_ref, ds_dev, dim_messages>>
         ELSE IF "time" \in ref_field.dims \/ HasBothLatLon(ref_field)
           THEN /\ ds_ref' = ref_field.layer
                /\ ds_dev' = dev_field.layer
                /\ pc' = "normalize"
                /\ UNCHANGED outvars
           ELSE /\ dim_messages' = Append(dim_messages, varname)
                /\ IF ivar = 0
                     THEN \* ds_ref is not bound yet: NameError at line 833 (827 when normalizing)
                          pc' = "raised" /\ stopped_by' = "unbound layer"
                     ELSE pc' = "normalize" /\ UNCHANGED stopped_by
                /\ UNCHANGED <<ds_ref, ds_dev>>
    /\ UNCHANGED <<args, gridvars, callvars, pdfvars, loopvars, fieldvars,
                   units_ref, units_dev, cmpvars, diffvars, fracvars>>

\* lines 825-830: area_ref and area_dev default to None, which cannot divide
GS_Normalize ==
    /\ args.routine = "gchp_single" /\ pc = "normalize"
    /\ IF args.normalize_by_area /\ ~Excluded(varname)
         THEN IF ~args.refarea.given
                THEN /\ pc' = "raised" /\ stopped_by' = "area"
                     /\ UNCHANGED <<ds_ref, ds_dev, units, subtitle_extra>>
              ELSE IF ~args.devarea.given
                THEN /\ ds_ref' = ArrDivScalar(ds_ref, args.refarea.a)
                     /\ pc' = "raised" /\ stopped_by' = "area"
                     /\ UNCHANGED <<ds_dev, units, subtitle_extra>>
              ELSE /\ ds_ref' = ArrDivScalar(ds_ref, args.refarea.a)
                   /\ ds_dev' = ArrDivScalar(ds_dev, args.devarea.a)
                   /\ units' = units \o StrM2
                   /\ subtitle_extra' = StrNormalized
                   /\ pc' = "diff"
                   /\ UNCHANGED stopped_by
         ELSE /\ pc' = "diff"
              /\ UNCHANGED <<ds_ref, ds_dev, units, subtitle_extra, stopped_by>>
    /\ UNCHANGED <<args, gridvars, callvars, pdfvars, loopvars, fieldvars,
                   units_ref, units_dev, cmpvars, diffvars, fracvars, dim_messages>>

\* lines 833-834 (reshape to the six faces) and 886-905 (the differences)
GS_Diff ==
    /\ args.routine = "gchp_single" /\ pc = "diff"
    /\ IF Len(ds_ref) # NFaces \/ Len(ds_dev) # NFaces
         THEN /\ pc' = "raised" /\ stopped_by' = "reshape"
              /\ UNCHANGED <<cmpvars, absdiff, diffabsmax, fracvars>>
         ELSE /\ ds_ref_cmp' = ds_ref /\ ds_dev_cmp' = ds_dev
              /\ absdiff' = ArrSub(ds_dev, ds_ref)
              /\ diffabsmax' = AbsMax(ArrSub(ds_dev, ds_ref))
              /\ fracdiff' = ArrDiv(ArrSub(ds_dev, ds_ref), ds_ref)
              /\ fracrange' = FixedRange
              /\ pc' = "savefig"
              /\ UNCHANGED <<fracdiffabsmax, stopped_by>>
    /\ UNCHANGED <<args, gridvars, callvars, pdfvars, loopvars, fieldvars, unitvars,
                   layervars, abspctmax, dim_messages, panel_ref, panel_dev>>

\* lines 917-919
GS_SaveFig ==
    /\ args.routine = "gchp_single" /\ pc = "savefig"
    /\ pages' = IF args.savepdf THEN Append(pages, varname) ELSE pages
    /\ pc' = "loop"
    /\ UNCHANGED <<args, gridvars, callvars, pdf, loopvars, varvars, outvars>>

\* line 921
GS_Finish ==
    /\ args.routine = "gchp_single" /\ pc = "finish"
    /\ pdf' = IF args.savepdf THEN "closed" ELSE pdf
    /\ pc' = "done"
    /\ UNCHANGED <<args, gridvars, callvars, pages, loopvars, varvars, outvars>>

(***************************************************************************)
(* compare_gchp_zonal_mean: both inputs are cubed-sphere and are regridded *)
(* to the lat-lon grid llres_cmp before the zonal mean is taken.           *)
(***************************************************************************)
\* lines 1429-1441
GZ_MakeGrids ==
    /\ args.routine = "gchp_zonal" /\ pc = "grids"
    /\ refres' = PyInt(args.refshape[2]) /\ refgridtype' = "cs"
    /\ devres' = PyInt(args.devshape[2]) /\ devgridtype' = "cs"
    /\ cmpres' = args.cmpres /\ cmpgridtype' = "ll"
    /\ grid_calls' = grid_calls \o <<GridCall("ll", args.cmpres),
                                     GridCall("cs", PyInt(args.refshape[2])),
                                     GridCall("cs", PyInt(args.devshape[2]))>>
    /\ regridder_calls' = regridder_calls
          \o <<RegridderCall("ref", "cs", PyInt(args.refshape[2]), args.cmpres),
               RegridderCall("dev", "cs", PyInt(args.devshape[2]), args.cmpres)>>
    /\ \E rop \in OpKinds, dop \in OpKinds :
          /\ args.refshape[2] = args.devshape[2] => rop = dop
          /\ refregridder' = rop
          /\ devregridder' = dop
    /\ pc' = "pdf"
    /\ UNCHANGED <<args, regridref, regriddev, regridany,
                   pdfvars, loopvars, varvars, outvars>>

\* lines 1450-1452
GZ_OpenPdf ==
    /\ args.routine = "gchp_zonal" /\ pc = "pdf"
    /\ pdf' = IF args.savepdf THEN "open" ELSE pdf
    /\ pc' = "loop"
    /\ UNCHANGED <<args, gridvars, callvars, pages, loopvars, varvars, outvars>>

\* lines 1455-1457
GZ_LoopHead ==
    /\ args.routine = "gchp_zonal" /\ pc = "loop"
    /\ IF ivar + 1 < args.n_var
         THEN /\ ivar' = ivar + 1
              /\ \E v \in VarInputs(args, refgridtype, devgridtype) :
                    /\ varname' = v.varname
                    /\ ref_field' = v.ref_field
                    /\ dev_field' = v.dev_field
              /\ UNCHANGED <<refdata_var, devdata_var>>
              /\ pc' = "units"
         ELSE /\ pc' = "finish"
              /\ UNCHANGED <<ivar, fieldvars>>
    /\ UNCHANGED <<args, gridvars, callvars, pdfvars, print_units_warning, warnings,
                   unitvars, layervars, cmpvars, diffvars, fracvars, outvars>>

\* lines 1460-1466: two assertions, whatever the arguments
GZ_CheckUnits ==
    /\ args.routine = "gchp_zonal" /\ pc = "units"
    /\ IF Cardinality(ref_field.dims) # Cardinality(dev_field.dims)
         THEN /\ pc' = "raised" /\ stopped_by' = "ndim"
              /\ UNCHANGED <<units_ref, units_dev>>
         ELSE /\ units_ref' = ref_field.units
              /\ units_dev' = dev_field.units
              /\ IF ref_field.units # dev_field.units
                   THEN pc' = "raised" /\ stopped_by' = "units"
                   ELSE pc' = "slice" /\ UNCHANGED stopped_by
    /\ UNCHANGED <<args, gridvars, callvars, pdfvars, loopvars, fieldvars, units,
                   subtitle_extra, layervars, cmpvars, diffvars, fracvars, dim_messages>>

\* lines 1472-1491: a variable without lev, or without time, lat and lon, is
\* reported and the routine returns
GZ_Slice ==
    /\ args.routine = "gchp_zonal" /\ pc = "slice"
    /\ units' = units_ref /\ subtitle_extra' = ""
    /\ IF "lev" \notin ref_field.dims
         THEN /\ dim_messages' = Append(dim_messages, varname)
              /\ pc' = "returned" /\ stopped_by' = "no lev"
              /\ UNCHANGED <<ds_ref, ds_dev>>
       ELSE IF "time" \in ref_field.dims /\ "time" \notin dev_field.dims
         THEN /\ pc' = "raised" /\ stopped_by' = "isel"
              /\ UNCHANGED <<ds_ref, ds_dev, dim_messages>>
       ELSE IF "time" \in ref_field.dims \/ HasBothLatLon(ref_field)
         THEN /\ ds_ref' = ZMSlice(ref_field, args.ilev)
              /\ ds_dev' = IF "lev" \in dev_field.dims
                             THEN ZMSlice(dev_field, args.ilev) ELSE <<dev_field.layer>>
              /\ pc' = "normalize"
              /\ UNCHANGED outvars
         ELSE /\ dim_messages' = Append(dim_messages, varname)
              /\ pc' = "returned" /\ stopped_by' = "no lat lon"
              /\ UNCHANGED <<ds_ref, ds_dev>>
    /\ UNCHANGED <<args, gridvars, callvars, pdfvars, loopvars, fieldvars,
                   units_ref, units_dev, cmpvars, diffvars, fracvars>>

\* lines 1494-1499: area_ref and area_dev default to None, which has no .values
GZ_Normalize ==
    /\ args.routine = "gchp_zonal" /\ pc = "normalize"
    /\ IF args.normalize_by_area /\ ~Excluded(varname)
         THEN IF ~args.refarea.given
                THEN /\ pc' = "raised" /\ stopped_by' = "area"
                     /\ UNCHANGED <<ds_ref, ds_dev, units, subtitle_extra>>
              ELSE IF ~args.devarea.given
                THEN /\ ds_ref' = [l \in 1..Len(ds_ref) |->
                                     ArrDivScalar(ds_ref[l], args.refarea.a)]
                     /\ pc' = "raised" /\ stopped_by' = "area"
                     /\ UNCHANGED <<ds_dev, units, subtitle_extra>>
              ELSE /\ ds_ref' = [l \in 1..Len(ds_ref) |->
                                   ArrDivScalar(ds_ref[l], args.refarea.a)]
                   /\ ds_dev' = [l \in 1..Len(ds_dev) |->
                                   ArrDivScalar(ds_dev[l], args.devarea.a)]
                   /\ units' = units \o StrM2
                   /\ subtitle_extra' = StrNormalized
                   /\ pc' = "regrid"
                   /\ UNCHANGED stopped_by
         ELSE /\ pc' = "regrid"
              /\ UNCHANGED <<ds_ref, ds_dev, units, subtitle_extra, stopped_by>>
    /\ UNCHANGED <<args, gridvars, callvars, pdfvars, loopvars, fieldvars,
                   units_ref, units_dev, cmpvars, diffvars, fracvars, dim_messages>>

\* ds.data[::-1,:,:]
Reversed(ds) == [l \in 1..Len(ds) |-> ds[Len(ds) + 1 - l]]

\* lines 1502-1513: the vertical flip, the reshape to six faces, and the
\* regridding of every level
GZ_Regrid ==
    /\ args.routine = "gchp_zonal" /\ pc = "regrid"
    /\ LET fl_ref == IF args.flip_ref THEN Reversed(ds_ref) ELSE ds_ref
           fl_dev == IF args.flip_ref THEN Reversed(ds_dev) ELSE ds_dev
       IN  /\ ds_ref' = fl_ref
           /\ ds_dev' = fl_dev
           /\ IF \E l \in 1..Len(fl_ref) : Len(fl_ref[l]) # NFaces
                THEN /\ pc' = "raised" /\ stopped_by' = "reshape"
                     /\ UNCHANGED <<ds_ref_cmp, ds_dev_cmp>>
              ELSE IF Len(fl_dev) # Len(fl_ref)
                        \/ \E l \in 1..Len(fl_dev) : Len(fl_dev[l]) # NFaces
                THEN /\ pc' = "raised" /\ stopped_by' = "reshape"
                     /\ UNCHANGED <<ds_ref_cmp, ds_dev_cmp>>
              ELSE /\ ds_ref_cmp' = [l \in 1..Len(fl_ref) |-> RegridCS(refregridder, fl_ref[l])]
                   /\ ds_dev_cmp' = [l \in 1..Len(fl_dev) |-> RegridCS(devregridder, fl_dev[l])]
                   /\ pc' = "diff"
                   /\ UNCHANGED stopped_by
    /\ UNCHANGED <<args, gridvars, callvars, pdfvars, loopvars, fieldvars, unitvars,
                   diffvars, fracvars, dim_messages, panel_ref, panel_dev>>

\* lines 1516-1517 (zm_ref, zm_dev) and 1567-1586 (the differences)
GZ_Diff ==
    /\ args.routine = "gchp_zonal" /\ pc = "diff"
    /\ LET zm_ref == ZonalMean(ds_ref_cmp)
           zm_dev == ZonalMean(ds_dev_cmp)
       IN  /\ absdiff' = ArrSub(zm_dev, zm_ref)
           /\ diffabsmax' = AbsMax(ArrSub(zm_dev, zm_ref))
           /\ fracdiff' = ArrDiv(ArrSub(zm_dev, zm_ref), zm_ref)
           /\ fracrange' = FixedRange
    /\ pc' = "savefig"
    /\ UNCHANGED <<args, gridvars, callvars, pdfvars, loopvars, fieldvars, unitvars,
                   layervars, cmpvars, abspctmax, fracdiffabsmax, outvars>>

\* lines 1598-1600
GZ_SaveFig ==
    /\ args.routine = "gchp_zonal" /\ pc = "savefig"
    /\ pages' = IF args.savepdf THEN Append(pages, varname) ELSE pages
    /\ pc' = "loop"
    /\ UNCHANGED <<args, gridvars, callvars, pdf, loopvars, varvars, outvars>>

\* line 1602
GZ_Finish ==
    /\ args.routine = "gchp_zonal" /\ pc = "finish"
    /\ pdf' = IF args.savepdf THEN "closed" ELSE pdf
    /\ pc' = "done"
    /\ UNCHANGED <<args, gridvars, callvars, pages, loopvars, varvars, outvars>>

Next ==
    \/ SL_ClassifyRef
    \/ SL_ClassifyDev
    \/ SL_ResolveCmp
    \/ SL_MakeGrids
    \/ SL_MakeRegridders
    \/ SL_OpenPdf
    \/ SL_LoopHead
    \/ SL_CheckUnits
    \/ SL_Slice
    \/ SL_Normalize
    \/ SL_Regrid
    \/ SL_Diff
    \/ SL_Restricted
    \/ SL_FracDiff
    \/ SL_SaveFig
    \/ SL_Finish
    \/ ZM_ClassifyRef
    \/ ZM_ClassifyDev
    \/ ZM_ResolveCmp
    \/ ZM_MakeGrids
    \/ ZM_OpenPdf
    \/ ZM_LoopHead
    \/ ZM_CheckUnits
    \/ ZM_Slice
    \/ ZM_Normalize
    \/ ZM_Regrid
    \/ ZM_Diff
    \/ ZM_Restricted
    \/ ZM_FracDiff
    \/ ZM_SaveFig
    \/ ZM_Finish
    \/ GS_MakeGrids
    \/ GS_OpenPdf
    \/ GS_LoopHead
    \/ GS_CheckUnits
    \/ GS_Slice
    \/ GS_Normalize
    \/ GS_Diff
    \/ GS_SaveFig
    \/ GS_Finish
    \/ GZ_MakeGrids
    \/ GZ_OpenPdf
    \/ GZ_LoopHead
    \/ GZ_CheckUnits
    \/ GZ_Slice
    \/ GZ_Normalize
    \/ GZ_Regrid
    \/ GZ_Diff
    \/ GZ_SaveFig
    \/ GZ_Finish

Spec == Init /\ [][Next]_vars

\* Each routine is one sequential Python function: once a section has run,
\* control passes to the next statement, so a step that is possible is taken.
FairInit == Init /\ args \in LoopCalls
FairSpec == FairInit /\ [][Next]_vars /\ WF_vars(Next)

(***************************************************************************)
(* Stages of a run.                                                        *)
(***************************************************************************)
SLResolved == args.routine = "single" /\ cmpgridtype # "none"
ZMResolved == args.routine = "zonal"
                /\ pc \notin {"classify_ref", "classify_dev", "resolve", "returned"}
Resolved == SLResolved \/ ZMResolved
\* the comparison-grid layers of the current variable are in place
OnCmp == Resolved /\ pc \in {"diff", "restricted", "fracdiff", "savefig"}
\* all difference layers and ranges of the current variable are in place
Compared == pc = "savefig"

Shape4x5 == <<46, 72>>
Shape2x25 == <<91, 144>>

(***************************************************************************)
(* C1.  Grid classification of compare_single_level.                       *)
(***************************************************************************)
\* the classification the claim describes: nlat/nlon == 6 needs nlon # 0
Described(nlat, nlon) ==
    IF <<nlat, nlon>> = Shape4x5
      THEN [ok |-> TRUE, res |-> PyStr(Label4x5), gridtype |-> "ll"]
    ELSE IF <<nlat, nlon>> = Shape2x25
      THEN [ok |-> TRUE, res |-> PyStr(Label2x25), gridtype |-> "ll"]
    ELSE IF nlon # 0 /\ nlat = 6 * nlon
      THEN [ok |-> TRUE, res |-> PyInt(nlon), gridtype |-> "cs"]
    ELSE [ok |-> FALSE, res |-> PyNone, gridtype |-> "none"]

\* both inputs are on grids the claims call recognized
BothDescribed ==
    /\ Described(args.refshape[1], args.refshape[2]).ok
    /\ Described(args.devshape[1], args.devshape[2]).ok

\* C1: once ref (dev) has been classified, its resolution and type are the
\* described ones: (46,72) is lat-lon '4x5', (91,144) is lat-lon '2x2.5', a
\* shape is cubed-sphere with face size nlon exactly when nlat/nlon == 6, and
\* every other shape, (0,0) included, makes the routine return unclassified.
C1_ClassifyAsDescribed ==
    args.routine = "single" =>
        /\ pc # "classify_ref" =>
              LET e == Described(args.refshape[1], args.refshape[2]) IN
                IF e.ok THEN refres = e.res /\ refgridtype = e.gridtype
                ELSE pc = "returned" /\ refgridtype = "none"
        /\ (pc \notin {"classify_ref", "classify_dev"} /\ refgridtype # "none") =>
              LET e == Described(args.devshape[1], args.devshape[2]) IN
                IF e.ok THEN devres = e.res /\ devgridtype = e.gridtype
                ELSE pc = "returned" /\ devgridtype = "none"

(***************************************************************************)
(* C2.  A 4x5 and a 2x2.5 input, no requested resolution.                  *)
(***************************************************************************)
MixedLatLon == {args.refshape, args.devshape} = {Shape4x5, Shape2x25}
                  /\ args.cmpres = PyNone

\* C2 as claimed: the comparison grid is the coarser '4x5', the 2x2.5 input is
\* marked for regridding, the 4x5 input is not and keeps its native layer.
C2_CoarserChosen ==
    (Resolved /\ MixedLatLon) =>
        /\ cmpres = PyStr(Label4x5)
        /\ regridref = (args.refshape = Shape2x25)
        /\ regriddev = (args.devshape = Shape2x25)
        /\ OnCmp => IF args.refshape = Shape4x5 THEN ds_ref_cmp = ds_ref
                    ELSE ds_dev_cmp = ds_dev

\* C2 amended: the comparison grid is '2x2.5', the smaller label as a string
\* and the finer grid; the 4x5 input is marked for regridding, the 2x2.5 input
\* is not and its comparison-grid layer is its native layer.
C2_FinerChosen ==
    (Resolved /\ MixedLatLon) =>
        /\ cmpres = PyStr(Label2x25)
        /\ regridref = (args.refshape = Shape4x5)
        /\ regriddev = (args.devshape = Shape4x5)
        /\ OnCmp => IF args.refshape = Shape2x25 THEN ds_ref_cmp = ds_ref
                    ELSE ds_dev_cmp = ds_dev

C2_Witness ==
    /\ args.routine = "single" /\ MixedLatLon /\ args.refshape = Shape4x5
    /\ pc = "diff" /\ regridref /\ ~regriddev
    /\ ds_dev_cmp = ds_dev /\ ds_ref_cmp # ds_ref

(***************************************************************************)
(* C3.  Automatic choice with cubed-sphere inputs.                         *)
(***************************************************************************)
Larger(a, b) == IF a >= b THEN a ELSE b

Names(label, gridtype, res) ==
    IF gridtype = "ll" THEN label = res
    ELSE ~HasX(label) /\ label.s = FaceLabel(res.n)

\* C5: a requested label is the comparison grid as given, lat-lon when it
\* contains 'x' and cubed-sphere otherwise, and an input whose own grid is
\* the one the label names is not regridded: its comparison-grid layer is
\* its native layer.
C5_RequestedVerbatim ==
    (SLResolved /\ BothDescribed /\ args.cmpres.tag = "str") =>
        /\ cmpres = args.cmpres
        /\ cmpgridtype = IF HasX(args.cmpres) THEN "ll" ELSE "cs"
        /\ Names(args.cmpres, refgridtype, refres) =>
              ~regridref /\ (OnCmp => ds_ref_cmp = ds_ref)
        /\ Names(args.cmpres, devgridtype, devres) =>
              ~regriddev /\ (OnCmp => ds_dev_cmp = ds_dev)

(***************************************************************************)
(* C6.  No lat-lon to cubed-sphere regridding.                             *)
(***************************************************************************)
SourceType(call) == IF call.who = "ref" THEN refgridtype ELSE devgridtype

\* C6: no regridder is ever requested from a lat-lon source to a
\* cubed-sphere comparison grid.
C6_NoLatLonToCubedSphere ==
    BothDescribed => \A i \in 1..Len(regridder_calls) :
        ~(SourceType(regridder_calls[i]) = "ll" /\ cmpgridtype = "cs")

C7_WitnessLatLon ==
    /\ args.routine = "single" /\ Compared /\ cmpgridtype = "ll" /\ regridany
    /\ \E i, j \in 1..Len(fracdiff) :
          /\ ds_ref_cmp[i] = Zero /\ FLt(Zero, ds_dev_cmp[i]) /\ fracdiff[i] = PInf
          /\ ds_ref_cmp[j] # Zero /\ ds_ref_cmp[j] = ds_dev_cmp[j] /\ fracdiff[j] = Zero

(***************************************************************************)
(* C8.  Absolute difference and its antisymmetry.                          *)
(***************************************************************************)
\* the operator a run obtains for a source resolution (the target is cmpres)
OpFor(res) == IF res = refres THEN refregridder ELSE devregridder

\* compare_single_level for one variable up to absdiff (lines 261-621), as a
\* function of the arguments a and the two fields
SingleLevelRun(a, name, rf, df) ==
    LET rc == Classify(a.refshape[1], a.refshape[2])
        dc == Classify(a.devshape[1], a.devshape[2])
        r == ResolveCmp(a.cmpres, rc.res, rc.gridtype, dc.res, dc.gridtype)
        rr == PyNe(rc.res, r.res)
        dr == PyNe(dc.res, r.res)
        ur == Strip(rf.units)
        ud == Strip(df.units)
        norm == Normalizes(rr \/ dr, ur, a.normalize_by_area, name)
        rdiv == Divisor(a.refarea, a.devarea, AreaM2(a.refshape))
        ddiv == Divisor(a.devarea, a.refarea, AreaM2(a.devshape))
        sref == SliceLayer(rf, a.flip_ref, a.ilev)
        sdev == SliceLayer(df, a.flip_dev, a.ilev)
        nref == IF norm THEN ArrDivScalar(sref, rdiv.a) ELSE sref
        ndev == IF norm THEN ArrDivScalar(sdev, ddiv.a) ELSE sdev
        cref == OnCmpGrid(rr, rc.gridtype, OpFor(rc.res), nref)
        cdev == OnCmpGrid(dr, dc.gridtype, OpFor(dc.res), ndev)
        raises == \/ (ur # ud /\ a.enforce_units)
                  \/ (norm /\ (rdiv.err \/ ddiv.err))
                  \/ ReshapeRaises(r.gridtype, r.res, rr, dr)
    IN  [cmpres |-> r.res, cmpgridtype |-> r.gridtype, raises |-> raises,
         absdiff |-> IF raises THEN <<>> ELSE AbsDiff(cdev, cref)]

Negated(a) == [i \in 1..Len(a) |-> FNeg(a[i])]

\* the call with the two datasets exchanged and every option as it is
SwappedData ==
    [args EXCEPT !.refshape = args.devshape, !.devshape = args.refshape]
\* the call with the datasets and their per-dataset options exchanged
SwappedRoles ==
    [SwappedData EXCEPT !.flip_ref = args.flip_dev, !.flip_dev = args.flip_ref,
                        !.refarea = args.devarea, !.devarea = args.refarea]

Antisymmetric(other) ==
    /\ other.cmpres = cmpres /\ other.cmpgridtype = cmpgridtype
    /\ ~other.raises
    /\ other.absdiff = Negated(absdiff)

HasAbsDiff == args.routine = "single" /\ pc \in {"restricted", "fracdiff", "savefig"}

\* C8 as claimed: absdiff is dev_on_cmp - ref_on_cmp, and the call with the
\* datasets exchanged under the same configuration chooses the same
\* comparison grid and produces the negated absdiff.
C8_AntisymmetricSameConfig ==
    HasAbsDiff =>
        /\ absdiff = ArrSub(ds_dev_cmp, ds_ref_cmp)
        /\ Antisymmetric(SingleLevelRun(SwappedData, varname, dev_field, ref_field))

\* C8 amended: absdiff is dev_on_cmp - ref_on_cmp; the call with the datasets
\* exchanged chooses the same comparison grid under the same configuration;
\* and it produces the negated absdiff when the per-dataset options
\* (flip_ref/flip_dev, refarea/devarea) are exchanged with the datasets and
\* ref and dev declare the same units.
C8_AntisymmetricSwappedRoles ==
    HasAbsDiff =>
        /\ absdiff = ArrSub(ds_dev_cmp, ds_ref_cmp)
        /\ LET same == SingleLevelRun(SwappedData, varname, dev_field, ref_field)
           IN  same.cmpres = cmpres /\ same.cmpgridtype = cmpgridtype
        /\ Strip(dev_field.units) = Strip(ref_field.units) =>
              Antisymmetric(SingleLevelRun(SwappedRoles, varname, dev_field, ref_field))

C8_Witness ==
    /\ HasAbsDiff /\ args.flip_ref /\ ~args.flip_dev /\ regridany
    /\ "lev" \in ref_field.dims /\ "lev" \in dev_field.dims
    /\ \E i \in 1..Len(absdiff) : absdiff[i] # Zero
    /\ Antisymmetric(SingleLevelRun(SwappedRoles, varname, dev_field, ref_field))
    /\ ~Antisymmetric(SingleLevelRun(SwappedData, varname, dev_field, ref_field))

C8_WitnessArea ==
    /\ HasAbsDiff /\ args.refarea.given /\ args.devarea.given
    /\ args.refarea # args.devarea /\ subtitle_extra = StrNormalized
    /\ \E i \in 1..Len(absdiff) : absdiff[i] # Zero

(***************************************************************************)
(* C9.  Identical nonzero layers.                                          *)
(***************************************************************************)
NonZero(a) == \A i \in 1..Len(a) : a[i] # Zero
Zeros(a) == \A i \in 1..Len(a) : a[i] = Zero

\* C9: when ref and dev are the same layer on the same grid, nonzero at
\* every cell and compared on that grid, absdiff and fracdiff are zero at
\* every cell and the dynamic and restricted ranges of absdiff and the
\* dynamic range of fracdiff are finite.
C9_IdenticalLayers ==
    (args.routine = "single" /\ Compared /\ args.refshape = args.devshape
        /\ ~regridany /\ ds_ref = ds_dev /\ NonZero(ds_ref)) =>
        /\ Zeros(absdiff) /\ Zeros(fracdiff)
        /\ IsFinite(diffabsmax) /\ IsFinite(abspctmax) /\ IsFinite(fracdiffabsmax)
        /\ IsFinite(fracrange[1]) /\ IsFinite(fracrange[2])

C9_Witness ==
    /\ args.routine = "single" /\ Compared
    /\ args.refshape = Shape4x5 /\ args.devshape = Shape4x5 /\ ~regridany
    /\ ds_ref = ds_dev /\ \A i \in 1..Len(ds_ref) : ds_ref[i] = Fin(1, 1)
    /\ fracrange = <<Zero, Zero>>

(***************************************************************************)
(* C10.  Ranges of an all-zero difference.                                 *)
(***************************************************************************)
\* C10: whenever absdiff is zero at every cell, the ranges reported for the
\* absolute and the fractional difference are finite, in both routines.
C10_ZeroDiffFiniteRanges ==
    (Compared /\ Zeros(absdiff)) =>
        /\ IsFinite(diffabsmax) /\ IsFinite(abspctmax)
        /\ IsFinite(fracrange[1]) /\ IsFinite(fracrange[2])

\* the same for compare_single_level alone, and for compare_zonal_mean alone
C10_SingleLevel == args.routine = "single" => C10_ZeroDiffFiniteRanges
C10_ZonalMean == args.routine = "zonal" => C10_ZeroDiffFiniteRanges

(***************************************************************************)
(* C11.  Variables on the exclusion list are never normalized.             *)
(***************************************************************************)
\* the three name parts the claim lists, as character codes
ExcludedParts ==
    { <<87, 101, 116, 76, 111, 115, 115, 67, 111, 110, 118, 70, 114, 97, 99>>,
      <<80, 114, 111, 100, 95>>, <<76, 111, 115, 115, 95>> }
NameHasExcludedPart ==
    \E part \in ExcludedParts :
        \E i \in 1..Len(varname) :
            /\ i + Len(part) - 1 <= Len(varname)
            /\ SubSeq(varname, i, i + Len(part) - 1) = part
\* the normalization step of the current variable has just run
JustNormalized ==
    \/ args.routine \in {"single", "zonal", "gchp_zonal"} /\ pc = "regrid"
    \/ args.routine = "gchp_single" /\ pc = "diff"
\* the layers as the slicing step produced them
SlicedRef ==
    IF args.routine \in {"zonal", "gchp_zonal"} THEN ZMSlice(ref_field, args.ilev)
    ELSE SliceLayer(ref_field, args.flip_ref, args.ilev)
SlicedDev ==
    IF args.routine \in {"zonal", "gchp_zonal"} THEN ZMSlice(dev_field, args.ilev)
    ELSE IF args.routine = "gchp_single" THEN SliceLayer(dev_field, args.flip_ref, args.ilev)
    ELSE SliceLayer(dev_field, args.flip_dev, args.ilev)
\* the units as they were read: stripped by the lat-lon routines
ReadUnits(field) ==
    IF args.routine \in {"single", "zonal"} THEN Strip(field.units) ELSE field.units

\* C11: in every routine, once the normalization step has run for a variable
\* whose name contains 'WetLossConvFrac', 'Prod_' or 'Loss_', the layers are
\* the sliced layers, units are the units read from ref, the Ref and Dev
\* units are those read, the subtitle suffix is empty, and the step never
\* fails on an area.
C11_ExcludedNeverNormalized ==
    NameHasExcludedPart =>
        /\ ~(pc = "raised" /\ stopped_by = "area")
        /\ JustNormalized =>
             /\ ds_ref = SlicedRef
             /\ ds_dev = SlicedDev
             /\ units = ReadUnits(ref_field)
             /\ units_ref = ReadUnits(ref_field)
             /\ units_dev = ReadUnits(dev_field)
             /\ subtitle_extra = ""

\* an excluded variable in kg, normalization requested, regridding needed
C11_Witness ==
    /\ NameHasExcludedPart /\ JustNormalized
    /\ args.routine = "single" /\ args.normalize_by_area /\ regridany
    /\ ref_field.units = StrKg
\* the same in a cubed-sphere routine, with both areas passed
C11_WitnessGchp ==
    /\ NameHasExcludedPart /\ JustNormalized
    /\ args.routine \in {"gchp_single", "gchp_zonal"} /\ args.normalize_by_area
    /\ args.refarea.given /\ args.devarea.given

(***************************************************************************)
(* C12.  When compare_single_level normalizes.                             *)
(***************************************************************************)
\* C12: once the normalization step of compare_single_level has run for a
\* variable outside the exclusion list, the variable is normalized (suffix
\* and '/m2' units) exactly when normalize_by_area is true, or the units are
\* 'kg' or 'kgC' and an input needs regridding.
C12_NormalizedWhenRequested ==
    (args.routine = "single" /\ JustNormalized /\ ~NameHasExcludedPart) =>
        ((subtitle_extra = StrNormalized /\ units = ReadUnits(ref_field) \o StrPerM2)
            <=> (\/ args.normalize_by_area
                 \/ (ReadUnits(ref_field) \in {StrKg, StrKgC} /\ regridany)))

(***************************************************************************)
(* C13.  Values and units change together.                                 *)
(***************************************************************************)
\* the normalization step has run, to its end or to an exception
AfterNormalize == JustNormalized \/ (pc = "raised" /\ stopped_by = "area")
\* the layer of ref (dev) is no longer the sliced layer
RefDivided == ds_ref # SlicedRef
DevDivided == ds_dev # SlicedDev

\* C13: in every routine, after the normalization step, either both layers
\* were left alone, units are the original units and the suffix is empty, or
\* units are '<orig>/m2' with the suffix ', Normalized by Area'; a layer is
\* divided only in the second case, and never one layer without the other.
C13_ValuesAndUnitsTogether ==
    AfterNormalize =>
        /\ \/ /\ units = ReadUnits(ref_field) /\ subtitle_extra = ""
              /\ ~RefDivided /\ ~DevDivided
           \/ /\ units = ReadUnits(ref_field) \o StrPerM2
              /\ subtitle_extra = StrNormalized
        /\ RefDivided <=> DevDivided
\* the part of C13 that compare_zonal_mean alone breaks: the suffix is set
\* with units that are not '<orig>/m2'
C13_ZonalMeanUnits ==
    (args.routine = "zonal" /\ AfterNormalize /\ subtitle_extra = StrNormalized)
        => units = ReadUnits(ref_field) \o StrPerM2

(***************************************************************************)
(* C14.  Each dataset is divided by its own area.                          *)
(***************************************************************************)
\* the area the claim gives a dataset: its override, else its AREAM2 field
OwnArea(own_arg, shape) == IF own_arg.given THEN own_arg.a ELSE AreaM2(shape)
\* compare_single_level normalizes the current variable (line 459-460)
SingleLevelTriggers ==
    /\ args.routine = "single"
    /\ regridany
    /\ ReadUnits(ref_field) \in {StrKg, StrKgC} \/ args.normalize_by_area
    /\ ~NameHasExcludedPart

\* C14: in compare_single_level, after the normalization step of a variable
\* that is normalized, the step has not failed and each layer is the sliced
\* layer divided by the dataset's own area (override, else AREAM2); for a
\* variable that is not normalized the step never fails.
C14_OwnAreaDivides ==
    (args.routine = "single" /\ AfterNormalize) =>
        IF SingleLevelTriggers
          THEN /\ pc # "raised"
               /\ ds_ref = ArrDivScalar(SlicedRef, OwnArea(args.refarea, args.refshape))
               /\ ds_dev = ArrDivScalar(SlicedDev, OwnArea(args.devarea, args.devshape))
          ELSE pc # "raised"

(***************************************************************************)
(* C15.  Unit mismatches with enforcement off.                             *)
(***************************************************************************)
\* a string without its leading and trailing whitespace
Trim(t) ==
    LET inked == {i \in 1..Len(t) : ~IsSpace(t[i])}
    IN  IF inked = {} THEN <<>>
        ELSE SubSeq(t, CHOOSE i \in inked : \A j \in inked : i <= j,
                       CHOOSE i \in inked : \A j \in inked : j <= i)
UnitsMismatch == Trim(ref_field.units) # Trim(dev_field.units)
\* the units check of the current variable is behind
UnitsChecked == pc \in {"slice", "normalize", "regrid", "diff", "restricted",
                        "fracdiff", "savefig"}
LatLonRoutine == args.routine \in {"single", "zonal"}

\* C15: with enforce_units=False in compare_single_level and
\* compare_zonal_mean, the units check never ends the run, the warning is
\* printed at most once, for the first variable it is printed exactly when
\* the stripped units differ (so not for units differing by whitespace
\* only), the units of the difference layers are ref's stripped units up to
\* the normalization suffix, and a run that reaches its end has gone through
\* every variable of the list.
C15_MismatchNeverStops ==
    (LatLonRoutine /\ ~args.enforce_units) =>
        /\ stopped_by # "units"
        /\ warnings <= 1
        /\ (ivar = 0 /\ UnitsChecked) => warnings = (IF UnitsMismatch THEN 1 ELSE 0)
        /\ (UnitsChecked /\ pc \notin {"slice", "normalize"}) =>
              /\ subtitle_extra = "" => units = Trim(ref_field.units)
              /\ subtitle_extra # "" =>
                    units \in {Trim(ref_field.units) \o StrPerM2,
                               Trim(ref_field.units) \o StrM2}
        /\ pc = "done" =>
              /\ ivar + 1 = args.n_var
              /\ args.savepdf => Len(pages) = args.n_var

\* a later variable with mismatching units has its page ready, after the
\* one warning of the run
C15_Witness ==
    /\ LatLonRoutine /\ ~args.enforce_units
    /\ ivar >= 1 /\ pc = "savefig" /\ UnitsMismatch /\ warnings = 1
    /\ ~print_units_warning
\* units that differ by whitespace only pass without a warning
C15_WitnessWhitespace ==
    /\ LatLonRoutine /\ ~args.enforce_units
    /\ ivar = 0 /\ pc = "savefig" /\ ref_field.units # dev_field.units
    /\ ~UnitsMismatch /\ warnings = 0

(***************************************************************************)
(* C16.  Unit mismatches with enforcement on.                              *)
(***************************************************************************)
\* the run was ended by the failed units check of the current variable
EndedByUnits == pc = "raised" /\ stopped_by = "units"

\* C16: a unit mismatch on variable k never ends the run while variables
\* after k are left in the list: they are still processed.
C16_MismatchAbortsOnlyVariable ==
    EndedByUnits => ivar + 1 = args.n_var
\* the same for compare_single_level alone, with enforce_units=True
C16_SingleLevel ==
    (args.routine = "single" /\ args.enforce_units /\ EndedByUnits)
        => ivar + 1 = args.n_var

(***************************************************************************)
(* C17.  Variables without latitude and longitude.                         *)
(***************************************************************************)
\* the current variable has neither a lat nor a lon axis, in ref and in dev
LacksLatLon ==
    /\ ivar >= 0
    /\ "lat" \notin ref_field.dims /\ "lon" \notin ref_field.dims
    /\ "lat" \notin dev_field.dims /\ "lon" \notin dev_field.dims

\* C17: for a variable without lat and lon no routine computes difference
\* layers or a page, and no routine ends the run on it (by a return or by an
\* exception): the loop goes on to the next variable.
C17_DimensionFailurePerVariable ==
    LacksLatLon =>
        pc \notin {"diff", "restricted", "fracdiff", "savefig", "raised", "returned"}
\* the part compare_single_level breaks by going on: layers are computed
C17_NoLayers ==
    (args.routine = "single" /\ LacksLatLon) =>
        pc \notin {"diff", "restricted", "fracdiff", "savefig"}
\* the part compare_gchp_zonal_mean breaks: the run ends with variables left
C17_NoEarlyReturn ==
    (args.routine = "gchp_zonal" /\ LacksLatLon /\ ivar + 1 < args.n_var) =>
        pc # "returned"

(***************************************************************************)
(* C18.  An input whose grid cannot be classified.                         *)
(***************************************************************************)
\* nothing has happened yet: no grid, no regridder, no PDF, no variable
NothingDone ==
    /\ grid_calls = <<>> /\ regridder_calls = <<>>
    /\ pdf = "none" /\ pages = <<>>
    /\ ivar = -1 /\ dim_messages = <<>>

\* C18: in compare_single_level and compare_zonal_mean, when ref or dev is
\* on none of the grids the routines recognize (46x72, 91x144, nlat = 6 * nlon
\* with nlon # 0), the run only classifies and returns: no grid geometry, no
\* regridder, no PDF, no variable.
C18_UnclassifiedAbortsFirst ==
    (LatLonRoutine /\ ~BothDescribed) =>
        /\ pc \in {"classify_ref", "classify_dev", "returned"}
        /\ NothingDone
\* the same with the inputs 0x0 left out, which the code takes for a
\* cubed-sphere grid of face size 0
C18_ExceptEmptyGrid ==
    (/\ LatLonRoutine /\ ~BothDescribed
     /\ args.refshape # <<0, 0>> /\ args.devshape # <<0, 0>>) =>
        /\ pc \in {"classify_ref", "classify_dev", "returned"}
        /\ NothingDone
\* a run the code ended at a classification has done nothing else
C18_ReturnedFirst ==
    (pc = "returned" /\ stopped_by \in {"ref grid", "dev grid"}) => NothingDone

(***************************************************************************)
(* C19.  What a failed run delivers.                                       *)
(***************************************************************************)
\* the run ended on the current variable, by an exception or a return
FailedOnVariable == pc \in {"raised", "returned"} /\ ivar >= 0

\* C19: a run with savepdf that ended on variable k has closed its PDF, and
\* the PDF holds one page for each of the k variables before.
C19_FailedRunDelivers ==
    (FailedOnVariable /\ args.savepdf) =>
        /\ pdf = "closed"
        /\ Len(pages) = ivar
\* the pages themselves are there: only the closing is missing
C19_PagesBefore ==
    (FailedOnVariable /\ args.savepdf) => Len(pages) = ivar

(***************************************************************************)
(* C20.  Slicing in compare_single_level.                                  *)
(***************************************************************************)
\* the level index the claim gives for a dataset with the given flip flag
ClaimedLevel(flip) == IF flip THEN 71 - args.ilev ELSE args.ilev
\* the slice the claim gives: by level when the field has a level axis,
\* the field at itime otherwise
ClaimedSlice(field, flip) ==
    IF "lev" \in field.dims THEN field.levels[ClaimedLevel(flip)] ELSE field.layer

\* the level index of every ilev in 0..71
LevelIndexLaws ==
    \A lev \in 0..71 :
        /\ LevIndex(TRUE, lev) \in 0..71
        /\ LevIndex(TRUE, lev) = 71 - lev
        /\ LevIndex(FALSE, lev) = lev
        /\ LevIndex(TRUE, LevIndex(TRUE, lev)) = lev

\* C20: in compare_single_level, right after slicing, the ref layer is the
\* slice of the ref field chosen by the ref field's axes and flip_ref alone
\* and the dev layer the slice of the dev field chosen by its axes and
\* flip_dev alone; the level index of every ilev in 0..71 is in 0..71, is
\* ilev itself without the flip, and flipping twice gives ilev back.
C20_SliceByAxes ==
    /\ (args.routine = "single" /\ pc = "normalize") =>
          /\ ds_ref = ClaimedSlice(ref_field, args.flip_ref)
          /\ ds_dev = ClaimedSlice(dev_field, args.flip_dev)
    /\ LevelIndexLaws

\* ref is flipped and dev is not, both with a level axis
C20_Witness ==
    /\ args.routine = "single" /\ pc = "normalize"
    /\ args.flip_ref /\ ~args.flip_dev
    /\ "lev" \in ref_field.dims /\ "lev" \in dev_field.dims
    /\ ds_ref = ref_field.levels[71 - args.ilev]
    /\ ds_ref # ref_field.levels[args.ilev]
    /\ ds_dev = dev_field.levels[args.ilev]
\* a ref field with a time axis only next to a dev field with a level axis
\* only, both flags set: ref is not touched by either flag
C20_WitnessNoLevel ==
    /\ args.routine = "single" /\ pc = "normalize"
    /\ ref_field.dims = TimeLatLon /\ dev_field.dims = LevLatLon
    /\ args.flip_ref /\ args.flip_dev
    /\ ds_ref = ref_field.layer
    /\ ds_dev = dev_field.levels[71 - args.ilev]

(***************************************************************************)
(* C21.  Processing is stateless across variables.                         *)
(***************************************************************************)
\* the current variable was left as sliced: no normalization suffix
LeftAsSliced == JustNormalized /\ subtitle_extra = ""

\* C21: in every routine the layers a variable is compared on come from that
\* variable's own ref and dev fields: when the variable is not normalized
\* they are the slices of its own fields, whatever variables came before.
C21_LayersFromOwnFields ==
    LeftAsSliced => (ds_ref = SlicedRef /\ ds_dev = SlicedDev)
\* the same for the routines other than compare_gchp_single_level
C21_OtherRoutines ==
    (LeftAsSliced /\ args.routine # "gchp_single")
        => (ds_ref = SlicedRef /\ ds_dev = SlicedDev)
\* the page of a variable without axes holds the layers of the variable before
C21_StalePage ==
    ~(/\ args.routine = "gchp_single" /\ pc = "savefig" /\ ivar >= 1
      /\ ref_field.dims = {} /\ ds_ref # ref_field.layer /\ Len(ds_ref) = NFaces)

(***************************************************************************)
(* C22.  Ordering of the steps of compare_single_level.                    *)
(***************************************************************************)
\* the number of regridders the resolved flags call for
RegriddersNeeded == (IF regridref THEN 1 ELSE 0) + (IF regriddev THEN 1 ELSE 0)
\* a regridder applied to a layer, by the type of the layer's grid
Regridded(gridtype, op, layer) ==
    IF gridtype = "ll" THEN RegridLL(op, layer) ELSE RegridCS(op, layer)
\* where compare_single_level stands once the named steps are behind
C22_StateOrder ==
    args.routine = "single" =>
        /\ regridder_calls # <<>> =>
              (refgridtype # "none" /\ devgridtype # "none" /\ cmpgridtype # "none")
        /\ ivar >= 0 => Len(regridder_calls) = RegriddersNeeded
        /\ (pc = "diff" /\ HasLatLon(ref_field) /\ HasLatLon(dev_field)) =>
              /\ ds_ref = IF SingleLevelTriggers
                            THEN ArrDivScalar(SlicedRef, OwnArea(args.refarea, args.refshape))
                            ELSE SlicedRef
              /\ ds_dev = IF SingleLevelTriggers
                            THEN ArrDivScalar(SlicedDev, OwnArea(args.devarea, args.devshape))
                            ELSE SlicedDev
              /\ ds_ref_cmp = IF regridref
                                THEN Regridded(refgridtype, refregridder, ds_ref) ELSE ds_ref
              /\ ds_dev_cmp = IF regriddev
                                THEN Regridded(devgridtype, devregridder, ds_dev) ELSE ds_dev
\* which step may change what, and which step follows which
C22_StepOrder ==
    args.routine = "single" =>
        /\ pc = "classify_ref" => pc' \in {"classify_dev", "returned"}
        /\ pc = "classify_dev" => pc' \in {"resolve", "returned"}
        /\ regridder_calls' # regridder_calls => (pc = "regridders" /\ pc' = "pdf")
        /\ ivar' # ivar => (pc = "loop" /\ pc' = "units")
        /\ pc = "slice" => pc' = "normalize"
        /\ pc = "normalize" => pc' \in {"regrid", "raised"}
        /\ pc = "regrid" => pc' \in {"diff", "raised"}
        /\ pc = "diff" => pc' = "restricted"
        /\ <<ds_ref, ds_dev>>' # <<ds_ref, ds_dev>> => pc \in {"slice", "normalize"}
        /\ <<ds_ref_cmp, ds_dev_cmp>>' # <<ds_ref_cmp, ds_dev_cmp>> => pc = "regrid"
        /\ <<absdiff, diffabsmax, abspctmax, fracdiff, fracdiffabsmax, fracrange>>'
              # <<absdiff, diffabsmax, abspctmax, fracdiff, fracdiffabsmax, fracrange>>
             => pc \in {"diff", "restricted", "fracdiff"}

\* C22: in compare_single_level both grids are classified and the comparison
\* grid chosen before a regridder is requested, all regridders are requested
\* before the first variable, and each variable goes through slice, normalize,
\* regrid, differences in that order: the layer handed to a regridder is the
\* normalized layer.
C22_OrderOfSteps == []C22_StateOrder /\ [][C22_StepOrder]_vars

\* a variable that was normalized and then regridded, about to be compared
C22_Witness ==
    /\ args.routine = "single" /\ pc = "diff" /\ ivar >= 0
    /\ SingleLevelTriggers /\ regridref /\ regriddev
    /\ ds_ref # SlicedRef /\ ds_ref_cmp # ds_ref
    /\ Len(regridder_calls) = 2

(***************************************************************************)
(* C23.  Regridder acquisition in compare_single_level.                    *)
(***************************************************************************)
\* the request the claim describes for one input, or none
ClaimedRequest(who, gridtype, res) ==
    IF res # cmpres
      THEN << [fn |-> IF gridtype = "ll" THEN "make_regridder_L2L"
                      ELSE "make_regridder_C2L",
               who |-> who, src |-> res, dst |-> cmpres,
               reuse_weights |-> TRUE, weightsdir |-> "weightsdir"] >>
      ELSE <<>>
\* the regridders of the run have been acquired
Acquired ==
    /\ pc \notin {"classify_ref", "classify_dev", "resolve", "grids", "regridders",
                  "returned"}
    /\ ~(pc = "raised" /\ stopped_by = "cmpres")

C23_WitnessMixed ==
    /\ args.routine = "single" /\ Acquired
    /\ refgridtype = "cs" /\ devgridtype = "ll"
    /\ Len(regridder_calls) = 2
    /\ regridder_calls[1].fn = "make_regridder_C2L"
    /\ regridder_calls[2].fn = "make_regridder_L2L"

(***************************************************************************)
(* C24.  Applying a cubed-sphere to lat-lon operator set.                  *)
(***************************************************************************)
\* what face i contributes to target cell t under the operator set op
Contribution(op, faces, i, t) == FaceOp(op, i, faces[i])[t]
\* zero plus the contributions of the six faces, face by face
FaceSum(op, faces, t) ==
    FAdd(FAdd(FAdd(FAdd(FAdd(FAdd(Zero,
        Contribution(op, faces, 1, t)), Contribution(op, faces, 2, t)),
        Contribution(op, faces, 3, t)), Contribution(op, faces, 4, t)),
        Contribution(op, faces, 5, t)), Contribution(op, faces, 6, t))
SummedFaces(op, faces) == [t \in 1..NCells |-> FaceSum(op, faces, t)]

\* C24: a cubed-sphere layer regridded to the lat-lon comparison grid is, at
\* every target cell, zero plus the sum over the six faces of that face's
\* operator applied to that face, with ref's operators for ref and dev's for
\* dev; in compare_single_level for each regridded cubed-sphere input, in
\* compare_gchp_zonal_mean for every level of both inputs.
C24_SumOverFaces ==
    /\ (/\ args.routine = "single" /\ pc = "diff"
        /\ HasLatLon(ref_field) /\ HasLatLon(dev_field)) =>
          /\ (regridref /\ refgridtype = "cs") =>
                ds_ref_cmp = SummedFaces(refregridder, ds_ref)
          /\ (regriddev /\ devgridtype = "cs") =>
                ds_dev_cmp = SummedFaces(devregridder, ds_dev)
    /\ (args.routine = "gchp_zonal" /\ pc = "diff") =>
          /\ ds_ref_cmp = [l \in 1..Len(ds_ref) |-> SummedFaces(refregridder, ds_ref[l])]
          /\ ds_dev_cmp = [l \in 1..Len(ds_dev) |-> SummedFaces(devregridder, ds_dev[l])]

\* two cubed-sphere inputs with different operator sets, ref not all zero
C24_Witness ==
    /\ args.routine = "single" /\ pc = "diff"
    /\ refgridtype = "cs" /\ devgridtype = "cs" /\ regridref /\ regriddev
    /\ refregridder # devregridder
    /\ \E i \in 1..NFaces : ds_ref[i] # Zero
    /\ SummedFaces(refregridder, ds_ref) # SummedFaces(devregridder, ds_ref)
\* faces that differ from one another, so that each face is told apart
C24_WitnessFaces ==
    /\ args.routine = "single" /\ pc = "diff"
    /\ refgridtype = "cs" /\ regridref
    /\ ds_ref[1] # ds_ref[2] /\ ds_ref[1] # Zero /\ ds_ref[2] # Zero

(***************************************************************************)
(* C25.  The full dynamic range of a difference array.                     *)
(***************************************************************************)
AllFinite(a) == a # <<>> /\ \A i \in 1..Len(a) : IsFinite(a[i])
\* x <= y for finite x and y
FLe(x, y) == ~FLt(y, x)
\* m is the magnitude of the least or of the greatest element of a
IsAbsOfExtreme(m, a) ==
    \E i \in 1..Len(a) :
        /\ m = FAbs(a[i])
        /\ \/ \A j \in 1..Len(a) : FLe(a[i], a[j])
           \/ \A j \in 1..Len(a) : FLe(a[j], a[i])
\* [lo, hi] is [-m, m] with m = max(|min|, |max|) of a, and a lies within it
IsFullRange(lo, hi, a) ==
    /\ lo = FNeg(hi)
    /\ FLe(Zero, hi)
    /\ IsAbsOfExtreme(hi, a)
    /\ \A i \in 1..Len(a) : FLe(lo, a[i]) /\ FLe(a[i], hi)

\* C25: in compare_single_level, for an absolute difference with finite
\* values the range [-diffabsmax, diffabsmax], and for a fractional
\* difference with finite values the range of the full-range panel, is
\* [-m, m] with m = max(|min|, |max|) of the array, m >= 0, and holds every
\* element of the array.
C25_FullRangeSymmetric ==
    (args.routine = "single" /\ pc = "savefig") =>
        /\ AllFinite(absdiff) =>
              IsFullRange(FNeg(diffabsmax), diffabsmax, absdiff)
        /\ AllFinite(fracdiff) =>
              /\ fracrange = <<FNeg(fracdiffabsmax), fracdiffabsmax>>
              /\ IsFullRange(fracrange[1], fracrange[2], fracdiff)

\* both arrays finite, the absolute difference largest in magnitude at its
\* negative end
C25_Witness ==
    /\ args.routine = "single" /\ pc = "savefig"
    /\ AllFinite(absdiff) /\ AllFinite(fracdiff)
    /\ FLt(NpMin(absdiff), Zero)
    /\ FLt(FAbs(NpMax(absdiff)), FAbs(NpMin(absdiff)))
    /\ diffabsmax = FAbs(NpMin(absdiff))

(***************************************************************************)
(* C26.  The restricted range of the absolute difference.                  *)
(***************************************************************************)
\* p is the larger of |5th percentile| and |95th percentile| of a
IsAbsPercentileMax(p, a) ==
    LET p5 == FAbs(Percentile(a, 5))
        p95 == FAbs(Percentile(a, 95))
    IN  /\ p \in {p5, p95}
        /\ FLe(p5, p) /\ FLe(p95, p)
\* the restricted range of the current variable has been computed
HasRestricted ==
    args.routine \in {"single", "zonal"} /\ pc \in {"fracdiff", "savefig"}

\* C26: for an absolute difference with finite values, abspctmax (the
\* restricted range is [-abspctmax, abspctmax]) is the larger of the
\* magnitudes of the 5th and 95th percentile of the whole array, is not
\* negative and is at most diffabsmax, the bound of the full range.
C26_RestrictedWithinFull ==
    (HasRestricted /\ AllFinite(absdiff)) =>
        /\ IsAbsPercentileMax(abspctmax, absdiff)
        /\ FLe(Zero, abspctmax)
        /\ FLe(abspctmax, diffabsmax)

\* a restricted range strictly inside the full range, set by the 5th percentile
C26_Witness ==
    /\ HasRestricted /\ args.routine = "single" /\ AllFinite(absdiff)
    /\ FLt(abspctmax, diffabsmax)
    /\ FLt(FAbs(Percentile(absdiff, 95)), FAbs(Percentile(absdiff, 5)))

(***************************************************************************)
(* C27: the ranges of the Ref and Dev panels of compare_single_level.      *)
(***************************************************************************)
\* the state after the Ref and Dev panels of the current variable were drawn
PanelsDrawn ==
    /\ args.routine = "single"
    /\ pc \in {"diff", "restricted", "fracdiff", "savefig"}
\* v is an element of one of the layers and no element of any of them is below it
IsLeastIn(v, layers) ==
    /\ \E k \in 1..Len(layers) : \E i \in 1..Len(layers[k]) : layers[k][i] = v
    /\ \A k \in 1..Len(layers) : \A i \in 1..Len(layers[k]) : FLe(v, layers[k][i])
\* v is an element of one of the layers and no element of any of them is above it
IsGreatestIn(v, layers) ==
    /\ \E k \in 1..Len(layers) : \E i \in 1..Len(layers[k]) : layers[k][i] = v
    /\ \A k \in 1..Len(layers) : \A i \in 1..Len(layers[k]) : FLe(layers[k][i], v)
\* every element of the layer lies in the range
RangeHolds(range, layer) ==
    \A i \in 1..Len(layer) : FLe(range[1], layer[i]) /\ FLe(layer[i], range[2])

\* C27: with match_cbar the Ref and the Dev panel share one range, the least
\* and the greatest value over the native ref and dev layers and the two
\* comparison-grid layers, which contains every value of both layers; without
\* match_cbar the Ref panel has exactly the [min, max] of the ref layer and
\* the Dev panel exactly the [min, max] of the dev layer of the current
\* variable.
C27_PanelRanges ==
    PanelsDrawn =>
        IF args.match_cbar
          THEN /\ panel_ref = panel_dev
               /\ IsLeastIn(panel_ref[1], <<ds_ref, ds_dev, ds_ref_cmp, ds_dev_cmp>>)
               /\ IsGreatestIn(panel_ref[2], <<ds_ref, ds_dev, ds_ref_cmp, ds_dev_cmp>>)
               /\ RangeHolds(panel_ref, ds_ref) /\ RangeHolds(panel_ref, ds_dev)
          ELSE /\ IsLeastIn(panel_ref[1], <<ds_ref>>)
               /\ IsGreatestIn(panel_ref[2], <<ds_ref>>)
               /\ IsLeastIn(panel_dev[1], <<ds_dev>>)
               /\ IsGreatestIn(panel_dev[2], <<ds_dev>>)
\* the second variable of a list, each panel on its own range, the ranges differ
C27_Witness ==
    /\ PanelsDrawn /\ ~args.match_cbar /\ ivar = 1
    /\ panel_ref # panel_dev
\* one variable, one layer regridded, each panel on its own range, the two overlap partly
C27_WitnessRegridded ==
    /\ PanelsDrawn /\ ~args.match_cbar /\ regridany
    /\ FLt(panel_ref[1], panel_dev[1]) /\ FLt(panel_ref[2], panel_dev[2])
\* a shared range wider than the range of either layer
C27_WitnessMatched ==
    /\ PanelsDrawn /\ args.match_cbar
    /\ ~IsLeastIn(panel_ref[1], <<ds_ref>>) /\ ~IsGreatestIn(panel_ref[2], <<ds_dev>>)

(***************************************************************************)
(* C28: the loop over the variables and the PDF.                           *)
(***************************************************************************)
\* the run was ended by a return or an exception
RunFailed == pc \in {"raised", "returned"}
\* the run reached the end of the routine
RunCompleted == pc = "done"
\* the state at the end of a run in which nothing failed
C28_AtEnd ==
    RunCompleted =>
        /\ ivar = args.n_var - 1
        /\ IF args.savepdf
             THEN pdf = "closed" /\ Len(pages) = args.n_var
             ELSE pdf = "none" /\ pages = <<>>
\* the steps that move the loop and the PDF
C28_Step ==
    \* the index moves by one, from the loop head, the page of the variable
    \* before it already emitted
    /\ ivar' # ivar =>
          /\ ivar' = ivar + 1 /\ pc = "loop" /\ ivar' < args.n_var
          /\ args.savepdf => Len(pages) = ivar + 1
    \* the loop head is entered from the PDF section or from the end of a variable
    /\ (pc' = "loop" /\ pc # "loop") => pc \in {"pdf", "savefig"}
    \* the fields of a variable are read at the loop head only
    /\ <<varname, ref_field, dev_field>>' # <<varname, ref_field, dev_field>> =>
          ivar' = ivar + 1
    \* a page is the page of the current variable, the last step of it
    /\ pages' # pages =>
          /\ args.savepdf /\ pdf = "open" /\ pc = "savefig"
          /\ pages' = Append(pages, varname) /\ Len(pages') = ivar + 1
    \* the PDF is opened before the first variable and closed after the last
    /\ pdf' # pdf =>
          \/ pdf = "none" /\ pdf' = "open" /\ args.savepdf /\ ivar = -1
          \/ /\ pdf = "open" /\ pdf' = "closed" /\ ivar = args.n_var - 1
             /\ Len(pages) = args.n_var /\ pc' = "done"
    \* without savepdf there is never a PDF
    /\ ~args.savepdf => pdf' = "none" /\ pages' = <<>>

\* C28: a run in which nothing fails comes to its end; it has then taken the
\* variables one at a time in list order, each once, with savepdf emitted one
\* page per variable in that order and closed the PDF once, after the last
\* variable, and without savepdf opened no PDF.
C28_RunsThroughList ==
    /\ <>(RunCompleted \/ RunFailed)
    /\ []C28_AtEnd
    /\ [][C28_Step]_vars
\* a completed run over a list of two variables, with a PDF
C28_Witness ==
    /\ RunCompleted /\ args.savepdf /\ args.n_var = MaxVars
    /\ pdf = "closed" /\ Len(pages) = MaxVars
\* a completed run over a list, without a PDF
C28_WitnessNoPdf ==
    RunCompleted /\ ~args.savepdf /\ args.n_var >= 2 /\ pdf = "none"

(***************************************************************************)
(* C29: the caller's datasets after compare_single_level.                  *)
(***************************************************************************)
\* compare_single_level has read a variable
SingleHasRead == args.routine = "single" /\ ivar >= 0

\* C29: at every point of a compare_single_level call, and so when it
\* returns, the variable the caller holds in refdata and in devdata has the
\* values and the units it had when the routine read it.
C29_CallerDataUnchanged ==
    SingleHasRead => refdata_var = ref_field /\ devdata_var = dev_field
\* a variable that was sliced along time or lev is never changed
C29_SlicedKept ==
    SingleHasRead =>
        /\ ~IsCallersArray(ref_field) => refdata_var = ref_field
        /\ ~IsCallersArray(dev_field) => devdata_var = dev_field
\* the units of the caller's variables are never changed
C29_UnitsKept ==
    SingleHasRead =>
        refdata_var.units = ref_field.units /\ devdata_var.units = dev_field.units
\* a completed call that left area-normalized values under the old units in refdata
C29_LeftNormalized ==
    /\ SingleHasRead /\ pc = "done"
    /\ refdata_var.layer = ds_ref /\ refdata_var.layer # ref_field.layer
    /\ refdata_var.units = StrKg

(***************************************************************************)
(* C30: compare_zonal_mean against compare_single_level on the grids.      *)
(***************************************************************************)
\* what compare_single_level makes of the shapes of this call
SLRef == Classify(args.refshape[1], args.refshape[2])
SLDev == Classify(args.devshape[1], args.devshape[2])
SLAccepts == SLRef.ok /\ SLDev.ok
SLChoice == ResolveCmp(args.cmpres, SLRef.res, SLRef.gridtype, SLDev.res, SLDev.gridtype)
\* compare_zonal_mean is past its grid classification / its choice of cmpres
ZMClassified ==
    args.routine = "zonal" /\ pc \notin {"classify_ref", "classify_dev"}
ZMAccepted == ZMClassified /\ ~(pc = "returned" /\ stopped_by \in {"ref grid", "dev grid"})
ZMChosen == ZMAccepted /\ pc # "resolve"
\* compare_zonal_mean decided as compare_single_level does on the same input
SameChoice ==
    /\ ~SLChoice.err /\ cmpres = SLChoice.res
    /\ regridref = (SLRef.res # SLChoice.res)
    /\ regriddev = (SLDev.res # SLChoice.res)

\* C30: compare_zonal_mean accepts the shapes of a call exactly when
\* compare_single_level accepts them, and when both accept it has the same
\* comparison resolution and the same regrid-ref and regrid-dev decisions.
C30_GridHandlingAgrees ==
    /\ ZMClassified => (ZMAccepted <=> SLAccepts)
    /\ (ZMChosen /\ SLAccepts) => SameChoice
\* on the two lat-lon grids, with no cmpres or a string, the two routines agree
C30_LatLonAgree ==
    (ZMClassified /\ args.refshape \in LLShapes /\ args.devshape \in LLShapes
        /\ args.cmpres.tag # "int") =>
        /\ ZMAccepted /\ SLAccepts
        /\ ZMChosen => SameChoice
\* compare_zonal_mean returned on cubed-sphere data that compare_single_level takes
C30_ZonalRejects ==
    /\ ZMClassified /\ ~ZMAccepted /\ SLAccepts
    /\ SLRef.gridtype = "cs" /\ SLDev.gridtype = "cs"
\* compare_zonal_mean went on with an int cmpres, on which compare_single_level raises
C30_ZonalTakesInt ==
    ZMChosen /\ SLAccepts /\ SLChoice.err /\ cmpres.tag = "int"

============================================================================
